---------------------------- MODULE Spec2Model ----------------------------
(***************************************************************************)
(* Model of ContextService (src/services/contextService.js): the builder   *)
(* of the textual user context that is sent to the LLM as a system prompt. *)
(*                                                                         *)
(* Text is modelled line by line: a line is a sequence of string tokens, a *)
(* section is a sequence of lines (the section string split at "\n"), so a *)
(* section string that ends with "\n" ends with the empty line << >>.      *)
(* Instants are integers; a JavaScript Date is [isDate, valid, t]. A       *)
(* calendar day holds DayLength instants; the server shows a Date in its   *)
(* own time zone, zone instants ahead of UTC.                              *)
(***************************************************************************)
EXTENDS Integers, Sequences, FiniteSets, TLC

VARIABLES
    bundle,     \* the userData argument of the running invocation
    clock,      \* the wall clock (what new Date() returns when it is read)
    pc,         \* the statement of buildUserContext that runs next
    sections,   \* the section strings built so far (<< >>: not built yet)
    reads,      \* the instant each new Date() of the invocation returned
    calItems,   \* topEvents of _getCalendarSummary
    stats,      \* totalIncome / upcomingJobs / completedJobs of _calculateStatistics
    threw,      \* the section whose construction threw ("none": none did)
    result,     \* what the invocation gave its caller
    zone,       \* the offset of the server's time zone from UTC
    chat        \* the /api/chat requests being served

vars ==
    <<bundle, clock, pc, sections, reads, calItems, stats, threw, result,
      zone, chat>>

---------------------------------------------------------------------------
(* Bounds of the model.                                                    *)

\* The wall clock advances at most this many times during one invocation.
MaxTicks == 2
\* Exhaustive calendar inputs: at most this many jobs + events + meetings.
MaxCalRecords == 3
\* Long calendar inputs: each category is a prefix of at most this length.
MaxPrefix == 5
\* Statistics inputs: at most this many jobs.
MaxStatJobs == 3

\* Long collections of a section formatter: at most this many records.
MaxRecords == 22
\* Long statistics inputs: at most this many jobs and this many events.
MaxMonthRecords == 9

\* The instant the clock shows when an invocation starts.
StartClock == 8

---------------------------------------------------------------------------
(* JavaScript values.                                                      *)

\* A calendar day of UTC holds this many instants.
DayLength == 2

\* The offsets from UTC a server may run at: behind UTC, UTC, ahead of UTC.
Zones == {-1, 0, 1}

\* A date field of a record: absent, a string (parseable or not), a number.
NoDate == [k |-> "absent", ok |-> FALSE, t |-> 0, raw |-> ""]
IsoDate(t) == [k |-> "str", ok |-> TRUE, t |-> t, raw |-> "iso" \o ToString(t)]
BadDate(s) == [k |-> "str", ok |-> FALSE, t |-> 0, raw |-> s]
NumDate(t) == [k |-> "num", ok |-> TRUE, t |-> t, raw |-> ""]
\* A date-only string ("2025-09-09") naming the calendar day n: Date parses
\* it as the midnight of that day in UTC.
IsoDay(n) ==
    [k |-> "str", ok |-> TRUE, t |-> n * DayLength, raw |-> "day" \o ToString(n)]

\* A rate field: absent, a number, or a string made of an optional leading
\* number (hasNum, n) followed by the text suf.
NoRate == [k |-> "absent", hasNum |-> FALSE, n |-> 0, suf |-> ""]
NumRate(n) == [k |-> "num", hasNum |-> TRUE, n |-> n, suf |-> ""]
StrRate(n, suf) == [k |-> "str", hasNum |-> TRUE, n |-> n, suf |-> suf]
TextRate(suf) == [k |-> "str", hasNum |-> FALSE, n |-> 0, suf |-> suf]

\* A record of any category; the string "" is an absent (or empty) field.
Blank ==
    [isNull |-> FALSE, date |-> NoDate, rate |-> NoRate, clientName |-> "",
     type |-> "", currency |-> "", status |-> "", paymentStatus |-> "",
     location |-> "", notes |-> "", time |-> "", startTime |-> "",
     dayRate |-> NoRate, name |-> "", city |-> "", country |-> "",
     commissionRate |-> NoRate, email |-> "", phone |-> "",
     locationName |-> "", checkInDate |-> NoDate, checkOutDate |-> NoDate,
     cost |-> NoRate]
\* A null element of a collection: reading a property of it throws TypeError.
NullRec == [Blank EXCEPT !.isNull = TRUE]

\* A collection of the bundle: an absent key, null, an array, or a value that
\* is no array (a number, an object).
UndefColl == [k |-> "undef", items |-> << >>]
NullColl == [k |-> "null", items |-> << >>]
Arr(items) == [k |-> "arr", items |-> items]
OtherColl == [k |-> "other", items |-> << >>]

NoProfile == [k |-> "undef", hasKeys |-> FALSE, name |-> "", email |-> "",
              phone |-> "", displayName |-> ""]
Profile(name, email, phone, displayName) ==
    [k |-> "obj", hasKeys |-> TRUE, name |-> name, email |-> email,
     phone |-> phone, displayName |-> displayName]

Categories ==
    <<"jobs", "events", "aiJobs", "agencies", "agents", "meetings",
      "onStays", "shootings">>

\* The userData argument: undefined, null, or an object.
EmptyObject ==
    [k |-> "obj", userProfile |-> NoProfile, jobs |-> UndefColl,
     events |-> UndefColl, aiJobs |-> UndefColl, agencies |-> UndefColl,
     agents |-> UndefColl, meetings |-> UndefColl, onStays |-> UndefColl,
     shootings |-> UndefColl]
UndefinedBundle == [EmptyObject EXCEPT !.k = "undef"]
NullBundle == [EmptyObject EXCEPT !.k = "null"]

---------------------------------------------------------------------------
(* Primitives of the language and of the service.                          *)

\* x || y on strings
Or(x, y) == IF x # "" THEN x ELSE y

Min(a, b) == IF a <= b THEN a ELSE b

\* Array.prototype.slice(from, to) with 0 <= from <= to
\*   a slice that keeps the end of the array
SliceOfEnd(s, from, to) ==
    SubSeq(s, Len(s) - Min(to, Len(s)) + 1 + from, Len(s))
Slice(s, from, to) == SubSeq(s, from + 1, Min(to, Len(s)))

\* Array.prototype.slice(-n)
SliceLast(s, n) == SubSeq(s, IF Len(s) > n THEN Len(s) - n + 1 ELSE 1, Len(s))

\* String.prototype.toUpperCase over the strings of the model
ToUpperCase(s) ==
    CASE s = "job" -> "JOB"
      [] s = "event" -> "EVENT"
      [] s = "meeting" -> "MEETING"
      [] s = "casting" -> "CASTING"
      [] s = "fitting" -> "FITTING"
      [] s = "EventType.casting" -> "EVENTTYPE.CASTING"
      [] OTHER -> s

\* s.split('.').pop() over the strings of the model
LastDotPart(s) ==
    CASE s = "EventType.casting" -> "casting"
      [] OTHER -> s

\* Whether a date field is truthy: if (x.date)
DateTruthy(d) == d.k = "str" \/ (d.k = "num" /\ d.t # 0)

\* new Date(x): never throws; an unparseable string gives an Invalid Date.
NewDate(d) == [isDate |-> TRUE, valid |-> d.ok, t |-> d.t]

\* new Date(): the wall clock.
DateNow(t) == [isDate |-> TRUE, valid |-> TRUE, t |-> t]

\*   a comparison that lets the present instant pass
DateAfterOrAt(a, b) == a.valid /\ b.valid /\ a.t >= b.t
\* a > b on Dates: both are converted to numbers; NaN compares false.
DateAfter(a, b) == a.valid /\ b.valid /\ a.t > b.t

\* Whether a rate field is truthy: if (job.rate)
RateTruthy(r) == (r.k = "num" /\ r.n # 0) \/ (r.k = "str")

\* `${rate}`
RateText(r) ==
    IF r.k = "num" THEN ToString(r.n)
    ELSE (IF r.hasNum THEN ToString(r.n) ELSE "") \o r.suf

\* parseFloat(rate) || 0 : the leading number of the text, 0 when none.
ParseFloatOrZero(r) == IF r.hasNum THEN r.n ELSE 0

\* rate > 0 after a truthy test: a string is converted with Number().
RatePositive(r) ==
    \/ r.k = "num" /\ r.n > 0
    \/ r.k = "str" /\ r.hasNum /\ r.suf = "" /\ r.n > 0

\* Number.prototype.toFixed(2) on a whole number
ToFixed2(n) == ToString(n) \o ".00"

\* The calendar day an instant falls on in the server's time zone, which
\* is what getFullYear, getMonth and toLocaleDateString go by.
LocalDay(t) == (t + zone) \div DayLength

\* _formatDisplayDate: the weekday, month, day and year ("D" and the number
\* of the day) of the Date in the server's time zone; toLocaleDateString
\* gives "Invalid Date" for an Invalid Date and does not throw.
FormatDisplayDate(d) ==
    IF ~d.isDate THEN "Date TBD"
    ELSE IF ~d.valid THEN "Invalid Date"
    ELSE "D" \o ToString(LocalDay(d.t))

\* _formatTime: the hour and minute ("T" and the instant within the day)
\* in the server's time zone.
FormatTime(d) ==
    IF ~d.isDate THEN "Time TBD"
    ELSE IF ~d.valid THEN "Invalid Date"
    ELSE "T" \o ToString((d.t + zone) % DayLength)

\* _formatJobDate: nothing in its try block throws, so its catch branch
\* (which would return the raw string) never runs.
FormatJobDate(d) ==
    IF ~DateTruthy(d) THEN "Date TBD"
    ELSE FormatDisplayDate(
            IF d.k = "str" THEN NewDate(d)
            ELSE [isDate |-> FALSE, valid |-> FALSE, t |-> d.t])

\* !x || x.length === 0
\*   a formatter that tests only !x
IsEmptyCollNoLengthTest(c) == c.k = "null"
IsEmptyColl(c) == c.k = "null" \/ (c.k = "arr" /\ Len(c.items) = 0)

\* x.length of an array, as a header prints it
\*   a header that counts ten records at most
LengthUpToTen(c) == Min(Len(c.items), 10)
Length(c) == Len(c.items)

\* Whether iterating the first n elements of the collection throws: the
\* collection is no array (forEach / slice is not a function), or one of
\* the elements read is null.
IterationThrows(c, n) ==
    \/ c.k # "arr"
    \/ \E i \in 1..Min(n, Len(c.items)) : c.items[i].isNull

RECURSIVE Flatten(_)
Flatten(ss) == IF ss = << >> THEN << >> ELSE Head(ss) \o Flatten(Tail(ss))

Returned(lines) == [thrown |-> FALSE, out |-> lines]
Thrown == [thrown |-> TRUE, out |-> << >>]


---------------------------------------------------------------------------
(* The section formatters.                                                 *)

\* The caps of the capped sections (slice(0, cap)).
EventsCap == 20
AiJobsCap == 5
MeetingsCap == 10
OnStaysCap == 10
ShootingsCap == 10
\* The cap of the calendar (slice(0, 10)) and of the month list (slice(-6)).
CalendarCap == 10
MonthsCap == 6

\* A section string whose last line ends with "\n".
Terminated(lines) == lines \o << << >> >>

Opt(cond, line) == IF cond THEN << line >> ELSE << >>

RECURSIVE SumInts(_)
SumInts(s) == IF s = << >> THEN 0 ELSE Head(s) + SumInts(Tail(s))

\* if (job.rate) total += parseFloat(job.rate) || 0
RateContribution(r) == IF RateTruthy(r) THEN ParseFloatOrZero(r) ELSE 0

TotalOfRates(jobs) ==
    SumInts([i \in 1..Len(jobs) |-> RateContribution(jobs[i].rate)])

\* if (job.date) { if (new Date(job.date) > now) upcoming++ else completed++ }
UpcomingJobs(jobs, now) ==
    Cardinality({i \in 1..Len(jobs) :
                    /\ DateTruthy(jobs[i].date)
                    /\ DateAfter(NewDate(jobs[i].date), DateNow(now))})
\*   a count of the jobs whose date parses and is not after now
CompletedJobsParsedOnly(jobs, now) ==
    Cardinality({i \in 1..Len(jobs) :
                    /\ DateTruthy(jobs[i].date)
                    /\ NewDate(jobs[i].date).valid
                    /\ ~DateAfter(NewDate(jobs[i].date), DateNow(now))})
CompletedJobs(jobs, now) ==
    Cardinality({i \in 1..Len(jobs) :
                    /\ DateTruthy(jobs[i].date)
                    /\ ~DateAfter(NewDate(jobs[i].date), DateNow(now))})

\* _buildUserProfileSection
BuildUserProfileSection(p) ==
    IF p.k = "null" \/ ~p.hasKeys
    THEN Returned(<< <<"USER PROFILE: Profile not found.">> >>)
    ELSE Returned(Terminated(
            << <<"USER PROFILE:">>,
               <<"- Name: ", Or(p.name, "Not specified")>>,
               <<"- Email: ", Or(p.email, "Not specified")>> >>
            \o Opt(p.phone # "", <<"- Phone: ", p.phone>>)
            \o Opt(p.displayName # "", <<"- Display Name: ", p.displayName>>)
            \o << << >> >>))

JobBlock(job) ==
    << <<"- ", FormatJobDate(job.date), ": ",
         Or(job.clientName, "Unknown Client"), " (", Or(job.type, "Job"), ")">>,
       <<"  Rate: ", IF RateTruthy(job.rate) THEN RateText(job.rate) ELSE "TBD",
         " ", Or(job.currency, "USD"), " | Status: ", Or(job.status, "Unknown"),
         " | Payment: ", Or(job.paymentStatus, "Unknown")>>,
       <<"  Location: ", Or(job.location, "TBD")>> >>
    \o Opt(job.notes # "", <<"  Notes: ", job.notes>>)
    \o << << >> >>

\* _buildJobsSection; now is what its new Date() returned.
BuildJobsSection(jobs, now) ==
    IF IsEmptyColl(jobs) THEN Returned(<< <<"JOBS: No jobs found.">> >>)
    ELSE IF IterationThrows(jobs, Len(jobs.items)) THEN Thrown
    ELSE Returned(Terminated(
            << <<"JOBS (", ToString(Length(jobs)), " total):">> >>
            \o Flatten([i \in 1..Len(jobs.items) |->
                          JobBlock(jobs.items[i])])
            \o << <<"SUMMARY:">>,
                  <<"- Total Earnings: $", ToFixed2(TotalOfRates(jobs.items)),
                    " USD">>,
                  <<"- Upcoming Jobs: ",
                    ToString(UpcomingJobs(jobs.items, now))>>,
                  <<"- Completed Jobs: ",
                    ToString(CompletedJobs(jobs.items, now))>> >>))

EventBlock(event) ==
    << <<"- ", FormatJobDate(event.date), " at ",
         Or(event.startTime, "Time TBD"), ": ",
         IF event.type # "" THEN ToUpperCase(event.type) ELSE "EVENT">>,
       <<"  Client: ", Or(event.clientName, "Unknown Client")>>,
       <<"  Location: ", Or(event.location, "Location TBD")>> >>
    \o Opt(RateTruthy(event.dayRate),
           <<"  Day Rate: ", RateText(event.dayRate), " ",
             Or(event.currency, "USD")>>)
    \o Opt(event.notes # "", <<"  Notes: ", event.notes>>)
    \o << << >> >>

\* _buildEventsSection
BuildEventsSection(events) ==
    IF IsEmptyColl(events) THEN Returned(<< <<"EVENTS: No events found.">> >>)
    ELSE IF IterationThrows(events, EventsCap) THEN Thrown
    ELSE Returned(Terminated(
            << <<"EVENTS (", ToString(Length(events)), " total):">> >>
            \o Flatten([i \in 1..Min(Len(events.items), EventsCap) |->
                          EventBlock(Slice(events.items, 0, EventsCap)[i])])))

AiJobBlock(job) ==
    << <<"- ", FormatJobDate(job.date), ": ",
         Or(job.clientName, "Unknown Client"), " (", Or(job.type, "AI Job"),
         ")">>,
       <<"  Rate: ",
         IF RateTruthy(job.rate)
         THEN RateText(job.rate) \o " " \o Or(job.currency, "USD")
         ELSE "Rate TBD",
         " | Status: ", Or(job.status, "Unknown"),
         " | Payment: ", Or(job.paymentStatus, "Unknown")>> >>
    \o Opt(job.location # "", <<"  Location: ", job.location>>)
    \o << << >> >>

\* _buildAiJobsSection
BuildAiJobsSection(aiJobs) ==
    IF IsEmptyColl(aiJobs)
    THEN Returned(<< <<"AI JOBS: No AI jobs found.">> >>)
    ELSE IF IterationThrows(aiJobs, AiJobsCap) THEN Thrown
    ELSE Returned(Terminated(
            << <<"AI JOBS:">> >>
            \o Flatten([i \in 1..Min(Len(aiJobs.items), AiJobsCap) |->
                          AiJobBlock(Slice(aiJobs.items, 0, AiJobsCap)[i])])))

CityLine(r) ==
    <<"  Location: ", r.city>>
    \o (IF r.country # "" THEN <<", ", r.country>> ELSE << >>)

AgencyBlock(agency) ==
    << <<"- ", Or(agency.name, "Unknown Agency")>> >>
    \o Opt(agency.city # "", CityLine(agency))
    \o Opt(RateTruthy(agency.commissionRate)
             /\ RatePositive(agency.commissionRate),
           <<"  Commission Rate: ", RateText(agency.commissionRate), "%">>)
    \o << << >> >>

\* _buildAgenciesSection
BuildAgenciesSection(agencies) ==
    IF IsEmptyColl(agencies)
    THEN Returned(<< <<"AGENCIES: No agencies found.">> >>)
    ELSE IF IterationThrows(agencies, Len(agencies.items)) THEN Thrown
    ELSE Returned(Terminated(
            << <<"AGENCIES (", ToString(Length(agencies)), " total):">> >>
            \o Flatten([i \in 1..Len(agencies.items) |->
                          AgencyBlock(agencies.items[i])])))

AgentBlock(agent) ==
    << <<"- ", Or(agent.name, "Unknown Agent")>> >>
    \o Opt(agent.email # "", <<"  Email: ", agent.email>>)
    \o Opt(agent.phone # "", <<"  Phone: ", agent.phone>>)
    \o Opt(agent.city # "", CityLine(agent))
    \o << << >> >>

\* _buildAgentsSection
BuildAgentsSection(agents) ==
    IF IsEmptyColl(agents) THEN Returned(<< <<"AGENTS: No agents found.">> >>)
    ELSE IF IterationThrows(agents, Len(agents.items)) THEN Thrown
    ELSE Returned(Terminated(
            << <<"AGENTS (", ToString(Length(agents)), " total):">> >>
            \o Flatten([i \in 1..Len(agents.items) |->
                          AgentBlock(agents.items[i])])))

MeetingBlock(meeting) ==
    << <<"- ", FormatJobDate(meeting.date), ": ",
         Or(meeting.clientName, "Unknown Client")>> >>
    \o Opt(meeting.time # "", <<"  Time: ", meeting.time>>)
    \o Opt(meeting.location # "", <<"  Location: ", meeting.location>>)
    \o << << >> >>

\* _buildMeetingsSection
BuildMeetingsSection(meetings) ==
    IF IsEmptyColl(meetings)
    THEN Returned(<< <<"MEETINGS: No meetings found.">> >>)
    ELSE IF IterationThrows(meetings, MeetingsCap) THEN Thrown
    ELSE Returned(Terminated(
            << <<"MEETINGS (", ToString(Length(meetings)), " total):">> >>
            \o Flatten([i \in 1..Min(Len(meetings.items), MeetingsCap) |->
                          MeetingBlock(Slice(meetings.items, 0, MeetingsCap)[i])])))

StayBlock(stay) ==
    << <<"- ", Or(stay.locationName, "Unknown Location")>> >>
    \o Opt(DateTruthy(stay.checkInDate),
           <<"  Check-in: ", FormatDisplayDate(NewDate(stay.checkInDate))>>)
    \o Opt(DateTruthy(stay.checkOutDate),
           <<"  Check-out: ", FormatDisplayDate(NewDate(stay.checkOutDate))>>)
    \o << <<"  Cost: ",
            IF RateTruthy(stay.cost) THEN RateText(stay.cost) ELSE "TBD",
            " ", Or(stay.currency, "USD")>>,
          << >> >>

\* _buildOnStaysSection
BuildOnStaysSection(onStays) ==
    IF IsEmptyColl(onStays)
    THEN Returned(<< <<"ON STAYS: No stays found.">> >>)
    ELSE IF IterationThrows(onStays, OnStaysCap) THEN Thrown
    ELSE Returned(Terminated(
            << <<"ON STAYS (", ToString(Length(onStays)), " total):">> >>
            \o Flatten([i \in 1..Min(Len(onStays.items), OnStaysCap) |->
                          StayBlock(Slice(onStays.items, 0, OnStaysCap)[i])])))

ShootingBlock(shooting) ==
    << <<"- ", FormatJobDate(shooting.date), ": ",
         Or(shooting.clientName, "Unknown Client")>> >>
    \o Opt(shooting.location # "", <<"  Location: ", shooting.location>>)
    \o Opt(RateTruthy(shooting.rate),
           <<"  Rate: ", RateText(shooting.rate), " ",
             Or(shooting.currency, "USD")>>)
    \o << << >> >>

\* _buildShootingsSection
BuildShootingsSection(shootings) ==
    IF IsEmptyColl(shootings)
    THEN Returned(<< <<"SHOOTINGS: No shootings found.">> >>)
    ELSE IF IterationThrows(shootings, ShootingsCap) THEN Thrown
    ELSE Returned(Terminated(
            << <<"SHOOTINGS (", ToString(Length(shootings)), " total):">> >>
            \o Flatten([i \in 1..Min(Len(shootings.items), ShootingsCap) |->
                          ShootingBlock(Slice(shootings.items, 0, ShootingsCap)[i])])))

---------------------------------------------------------------------------
(* _calculateStatistics                                                    *)

\* The records of a collection that a spread or a forEach visits.
Items(c) == IF c.k = "arr" THEN c.items ELSE << >>

\* `${date.getFullYear()}-${String(date.getMonth() + 1).padStart(2, '0')}`:
\* a month holds two days, day 0 opens January 2025 and the month is the
\* one of the server's time zone; the key of an Invalid Date is "NaN-NaN".
MonthKey(d) ==
    IF ~d.valid THEN [nan |-> TRUE, idx |-> 0, text |-> "NaN-NaN"]
    ELSE LET idx == LocalDay(d.t) \div 2
             m == (idx % 12) + 1
         IN [nan |-> FALSE, idx |-> idx,
             text |-> ToString(2025 + (idx \div 12)) \o "-"
                      \o (IF m < 10 THEN "0" ELSE "") \o ToString(m)]

\* a < b for the strings of two month keys: a digit sorts before "N".
KeyBefore(a, b) ==
    \/ ~a.nan /\ b.nan
    \/ ~a.nan /\ ~b.nan /\ a.idx < b.idx

\* Array.prototype.sort() of a set of distinct keys
RECURSIVE SortKeys(_)
SortKeys(ks) ==
    IF ks = {} THEN << >>
    ELSE LET least == CHOOSE k \in ks : \A o \in ks \ {k} : KeyBefore(k, o)
         IN <<least>> \o SortKeys(ks \ {least})

\* eventsByMonth: only a record with a truthy date adds to a bucket.
Dated(all) == SelectSeq(all, LAMBDA r : DateTruthy(r.date))

EventsByMonthKeys(all) ==
    {MonthKey(NewDate(Dated(all)[i].date)) : i \in 1..Len(Dated(all))}

EventsByMonthCount(all, key) ==
    Cardinality({i \in 1..Len(Dated(all)) :
                    MonthKey(NewDate(Dated(all)[i].date)) = key})

\* The month lines: sortedMonths.slice(-6)
\*   a list of the first months of the sorted keys
MonthsListedOldest(all) == Slice(SortKeys(EventsByMonthKeys(all)), 0, MonthsCap)
MonthsListed(all) == SliceLast(SortKeys(EventsByMonthKeys(all)), MonthsCap)

\* Whether the body of _calculateStatistics throws into its own catch:
\* jobs.forEach on a value that is no array, a null job, the spread of a
\* value that cannot be iterated, a null event.
StatisticsThrows(jobs, events) ==
    \/ IterationThrows(jobs, Len(jobs.items))
    \/ IterationThrows(events, Len(events.items))

NoStats == [ok |-> FALSE, totalIncome |-> 0, upcomingJobs |-> 0,
            completedJobs |-> 0, eventsByMonth |-> {}, months |-> << >>]

\* The numbers _calculateStatistics computes; now is what its new Date()
\* returned.
StatisticsOf(jobs, events, now) ==
    IF StatisticsThrows(jobs, events) THEN NoStats
    ELSE LET all == jobs.items \o events.items
             listed == MonthsListed(all)
         IN [ok |-> TRUE,
             totalIncome |-> TotalOfRates(jobs.items),
             upcomingJobs |-> UpcomingJobs(jobs.items, now),
             completedJobs |-> CompletedJobs(jobs.items, now),
             eventsByMonth |->
                {[key |-> k.text, count |-> EventsByMonthCount(all, k)] :
                    k \in EventsByMonthKeys(all)},
             months |-> [i \in 1..Len(listed) |->
                            [key |-> listed[i].text,
                             count |-> EventsByMonthCount(all, listed[i])]]]

MonthLine(m) == << <<"  ", m.key, ": ", ToString(m.count), " events">> >>

\* The string _calculateStatistics returns.
CalculateStatistics(jobs, events, now) ==
    LET st == StatisticsOf(jobs, events, now)
    IN IF ~st.ok THEN << <<"STATISTICS: Error calculating statistics.">> >>
       ELSE Terminated(
            << <<"STATISTICS:">>,
               <<"- Total Income: $", ToFixed2(st.totalIncome), " USD">>,
               <<"- Total Jobs: ", ToString(Len(jobs.items))>>,
               <<"- Upcoming Jobs: ", ToString(st.upcomingJobs)>>,
               <<"- Completed Jobs: ", ToString(st.completedJobs)>>,
               <<"- Total Events: ", ToString(Len(events.items))>> >>
            \o (IF st.months # << >>
                THEN << <<"- Activity by Month:">> >>
                     \o Flatten([i \in 1..Len(st.months) |->
                          MonthLine(st.months[i])])
                ELSE << >>))

---------------------------------------------------------------------------
(* _getCalendarSummary                                                     *)

\* if (x.date) { d = new Date(x.date); if (d > now) push }; a null record
\* throws inside the per-record try and is skipped.
IsUpcoming(r, now) ==
    ~r.isNull /\ DateTruthy(r.date)
    /\ DateAfter(NewDate(r.date), DateNow(now))

JobItem(job) ==
    [type |-> "job", title |-> Or(job.clientName, "Unknown Client"),
     date |-> NewDate(job.date), time |-> job.time,
     location |-> job.location]
EventItem(event) ==
    [type |-> IF event.type # "" THEN LastDotPart(event.type) ELSE "event",
     title |-> Or(event.clientName, "Event"),
     date |-> NewDate(event.date), time |-> event.startTime,
     location |-> event.location]
MeetingItem(meeting) ==
    [type |-> "meeting", title |-> Or(meeting.clientName, "Unknown Client"),
     date |-> NewDate(meeting.date), time |-> meeting.time,
     location |-> meeting.location]

Upcoming(records, now) == SelectSeq(records, LAMBDA r : IsUpcoming(r, now))

\* upcomingEvents before the sort: jobs, then events, then meetings.
UpcomingEvents(jobs, events, meetings, now) ==
    LET j == Upcoming(jobs, now)
        e == Upcoming(events, now)
        m == Upcoming(meetings, now)
    IN [i \in 1..Len(j) |-> JobItem(j[i])]
       \o [i \in 1..Len(e) |-> EventItem(e[i])]
       \o [i \in 1..Len(m) |-> MeetingItem(m[i])]

\*   a comparator that also moves an item in front of one of the same date
SortsAfterOrWith(a, b) == a.date.t - b.date.t >= 0
\* The comparator (a, b) => a.date - b.date says a sorts after b.
SortsAfter(a, b) == a.date.t - b.date.t > 0

\* Array.prototype.sort is stable: an insertion sort that puts each item
\* behind every item that does not sort after it.
RECURSIVE InsertItem(_, _)
InsertItem(sorted, x) ==
    IF sorted = << >> THEN <<x>>
    ELSE IF SortsAfter(Head(sorted), x) THEN <<x>> \o sorted
    ELSE <<Head(sorted)>> \o InsertItem(Tail(sorted), x)

RECURSIVE SortItems(_)
SortItems(s) ==
    IF s = << >> THEN << >>
    ELSE InsertItem(SortItems(SubSeq(s, 1, Len(s) - 1)), s[Len(s)])

\* What _getCalendarSummary leaves of the arrays of its caller: it pushes
\* the upcoming records onto upcomingEvents, an array of its own, and sort
\* and slice work on that array.
\*   a merger that sorts the jobs array it was given
JobsSortedInPlace(b) ==
    IF b.k = "obj" /\ b.jobs.k = "arr"
    THEN [b EXCEPT !.jobs = Arr(SortItems(b.jobs.items))]
    ELSE b
CallerArrays(b) == b

\*   a slice that keeps one item more
TopEventsOneMore(sorted) == Slice(sorted, 0, CalendarCap + 1)
\* topEvents
TopEvents(sorted) == Slice(sorted, 0, CalendarCap)

\* Whether the body of _getCalendarSummary throws into its own catch:
\* forEach on a value that is no array.
CalendarThrows(jobs, events, meetings) ==
    jobs.k # "arr" \/ events.k # "arr" \/ meetings.k # "arr"

CalendarItems(jobs, events, meetings, now) ==
    IF CalendarThrows(jobs, events, meetings) THEN << >>
    ELSE TopEvents(SortItems(
            UpcomingEvents(jobs.items, events.items, meetings.items, now)))

CalendarBlock(item) ==
    << <<"- ", FormatDisplayDate(item.date)>>
         \o (IF item.time # "" THEN <<" at ", item.time>> ELSE << >>)
         \o <<": ", ToUpperCase(item.type), " - ", item.title>> >>
    \o Opt(item.location # "", <<"  Location: ", item.location>>)
    \o << << >> >>

\* The string _getCalendarSummary returns.
GetCalendarSummary(jobs, events, meetings, now) ==
    LET top == CalendarItems(jobs, events, meetings, now)
    IN IF CalendarThrows(jobs, events, meetings)
       THEN << <<"UPCOMING CALENDAR: Error loading calendar data.">> >>
       ELSE IF Len(top) = 0
       THEN << <<"UPCOMING CALENDAR: No upcoming events scheduled.">> >>
       ELSE Terminated(
            << <<"UPCOMING CALENDAR (Next ", ToString(Len(top)), " Events):">> >>
            \o Flatten([i \in 1..Len(top) |->
                          CalendarBlock(top[i])]))

---------------------------------------------------------------------------
(* buildUserContext                                                        *)

SectionNames ==
    <<"userProfile", "jobs", "events", "aiJobs", "agencies", "agents",
      "meetings", "onStays", "shootings", "statistics", "calendar">>

ReadNames == {"jobs", "statistics", "calendar", "date", "time"}

\*   a builder that destructures userData itself
SafeUserDataUnguarded(userData) == userData
\* const safeUserData = userData || {}  (and the default parameter {})
SafeUserData(userData) == IF userData.k = "obj" THEN userData ELSE EmptyObject

\* A destructuring default applies to an undefined property only.
DefaultProfile(p) == IF p.k = "undef" THEN [p EXCEPT !.k = "obj"] ELSE p
DefaultArray(c) == IF c.k = "undef" THEN Arr(<< >>) ELSE c

\* The destructured locals of buildUserContext(userData).
LocalOf(userData, name) ==
    IF name = "userProfile"
    THEN DefaultProfile(SafeUserData(userData).userProfile)
    ELSE DefaultArray(SafeUserData(userData)[name])

\* The locals of the invocation under way.
Local(name) == LocalOf(bundle, name)

Label(text) == << << >>, <<text>> >>

Preamble ==
    << << >>,
       <<"You are an AI assistant for a modeling professional using Model Day. You have access to ONLY their data and can help analyze it and provide insights.">>,
       << >>,
       <<"CURRENT USER DATA CONTEXT:">> >>

Closing ==
    << << >>,
       <<"Provide helpful, professional responses based on the actual data. Consider:">>,
       <<"1. Financial insights: Total earnings, booking rates, job trends">>,
       <<"2. Calendar management: Upcoming events, schedule conflicts, busy periods">>,
       <<"3. Career development: Patterns in castings, successful job types, agent relationships">>,
       <<"4. Network analysis: Industry contacts, agency relationships">>,
       <<"5. Activity trends: Monthly or seasonal patterns in bookings and events">>,
       << >>,
       <<"If calculating totals or analyzing trends, show actual numbers. If asked about something not in the data, let them know politely. Maintain a friendly, professional tone.">>,
       << >> >>

\*   a template with the events and AI jobs sections in each other's place
ContextSwapped(sec, dateRead, timeRead) ==
    Preamble
    \o sec["userProfile"]
    \o Label("JOBS DATA:") \o sec["jobs"]
    \o Label("AI JOBS DATA:") \o sec["aiJobs"]
    \o Label("EVENTS DATA:") \o sec["events"]
    \o Label("AGENCIES DATA:") \o sec["agencies"]
    \o Label("AGENTS DATA:") \o sec["agents"]
    \o Label("MEETINGS DATA:") \o sec["meetings"]
    \o Label("ON STAYS DATA:") \o sec["onStays"]
    \o Label("SHOOTINGS DATA:") \o sec["shootings"]
    \o Label("STATISTICS:") \o sec["statistics"]
    \o Label("UPCOMING CALENDAR (Next 10 Events):") \o sec["calendar"]
    \o << << >>,
          <<"Current Date: ", FormatDisplayDate(DateNow(dateRead))>>,
          <<"Current Time: ", FormatTime(DateNow(timeRead))>> >>
    \o Closing

\* The template literal of buildUserContext.
Context(sec, dateRead, timeRead) ==
    Preamble
    \o sec["userProfile"]
    \o Label("JOBS DATA:") \o sec["jobs"]
    \o Label("EVENTS DATA:") \o sec["events"]
    \o Label("AI JOBS DATA:") \o sec["aiJobs"]
    \o Label("AGENCIES DATA:") \o sec["agencies"]
    \o Label("AGENTS DATA:") \o sec["agents"]
    \o Label("MEETINGS DATA:") \o sec["meetings"]
    \o Label("ON STAYS DATA:") \o sec["onStays"]
    \o Label("SHOOTINGS DATA:") \o sec["shootings"]
    \o Label("STATISTICS:") \o sec["statistics"]
    \o Label("UPCOMING CALENDAR (Next 10 Events):") \o sec["calendar"]
    \o << << >>,
          <<"Current Date: ", FormatDisplayDate(DateNow(dateRead))>>,
          <<"Current Time: ", FormatTime(DateNow(timeRead))>> >>
    \o Closing

NoResult == [kind |-> "none", lines |-> << >>]

\*   a catch that rethrows to the caller
RethrownResult == [kind |-> "thrown", lines |-> << >>]
\* The catch of buildUserContext: the error is logged and a string returned.
CaughtResult ==
    [kind |-> "returned",
     lines |-> << <<"Error gathering user data. Please try again.">> >>]

\* A section builder returned or threw: go on, or to the catch.
Proceed(name, outcome, next) ==
    IF outcome.thrown
    THEN /\ threw' = name
         /\ result' = CaughtResult
         /\ pc' = "done"
         /\ UNCHANGED sections
    ELSE /\ sections' = [sections EXCEPT ![name] = outcome.out]
         /\ pc' = next
         /\ UNCHANGED <<threw, result>>

\* What each builder makes of userData when the clock shows now.
OutcomesOf(userData, now) ==
    [n \in {SectionNames[i] : i \in 1..Len(SectionNames)} |->
        CASE n = "userProfile" ->
                BuildUserProfileSection(LocalOf(userData, n))
          [] n = "jobs" -> BuildJobsSection(LocalOf(userData, n), now)
          [] n = "events" -> BuildEventsSection(LocalOf(userData, n))
          [] n = "aiJobs" -> BuildAiJobsSection(LocalOf(userData, n))
          [] n = "agencies" -> BuildAgenciesSection(LocalOf(userData, n))
          [] n = "agents" -> BuildAgentsSection(LocalOf(userData, n))
          [] n = "meetings" -> BuildMeetingsSection(LocalOf(userData, n))
          [] n = "onStays" -> BuildOnStaysSection(LocalOf(userData, n))
          [] n = "shootings" -> BuildShootingsSection(LocalOf(userData, n))
          [] n = "statistics" ->
                Returned(CalculateStatistics(LocalOf(userData, "jobs"),
                                             LocalOf(userData, "events"), now))
          [] n = "calendar" ->
                Returned(GetCalendarSummary(LocalOf(userData, "jobs"),
                                            LocalOf(userData, "events"),
                                            LocalOf(userData, "meetings"),
                                            now))]

\* The string buildUserContext(userData) returns when the whole call runs
\* while the clock shows now.
BuildUserContext(userData, now) ==
    LET o == OutcomesOf(userData, now)
    IN IF SafeUserData(userData).k # "obj" \/ \E n \in DOMAIN o : o[n].thrown
       THEN CaughtResult.lines
       ELSE Context([n \in DOMAIN o |-> o[n].out], now, now)

---------------------------------------------------------------------------
(* The inputs of the model.                                                *)

Past == StartClock - 3
Soon == StartClock + 1      \* passes while the invocation runs, if it is slow
Later == StartClock + MaxTicks + 2
MuchLater == StartClock + MaxTicks + 6

\* A job that is over when the invocation starts.
PastJob ==
    [Blank EXCEPT !.clientName = "Luxury Brand Co", !.type = "Commercial",
                  !.date = IsoDate(Past), !.time = "14:00",
                  !.rate = NumRate(5000), !.status = "Completed",
                  !.paymentStatus = "Paid"]
\* A job the clock may pass while the invocation runs.
SoonJob ==
    [Blank EXCEPT !.clientName = "Designer Boutique", !.type = "Runway",
                  !.date = IsoDate(Soon), !.rate = NumRate(3000),
                  !.currency = "EUR"]
\* A job whose date is a number, not a string.
TimestampJob ==
    [Blank EXCEPT !.clientName = "Agency import", !.date = NumDate(Later),
                  !.rate = TextRate("negotiable")]

\* The records a collection of each category is made of.
Good(c) ==
    CASE c = "jobs" ->
         [Blank EXCEPT !.clientName = "Fashion Forward Magazine",
                           !.type = "Editorial", !.date = IsoDate(Later),
                           !.time = "09:00", !.location = "New York, NY",
                           !.rate = NumRate(2500), !.currency = "USD",
                           !.status = "Confirmed", !.paymentStatus = "Pending",
                           !.notes = "Bring black heels and minimal jewelry"]
      [] c = "events" ->
         [Blank EXCEPT !.type = "casting", !.clientName = "Elite Modeling Agency",
                           !.date = IsoDate(Later), !.startTime = "10:00",
                           !.location = "Manhattan, NY", !.dayRate = NumRate(500),
                           !.currency = "USD", !.notes = "Bring portfolio"]
      [] c = "aiJobs" ->
         [Blank EXCEPT !.clientName = "Tech Fashion Co",
                           !.type = "AI Model Training", !.date = IsoDate(MuchLater),
                           !.rate = NumRate(1500), !.status = "In Progress",
                           !.paymentStatus = "Pending", !.location = "Remote"]
      [] c = "agencies" ->
         [Blank EXCEPT !.name = "Elite Model Management", !.city = "New York",
                           !.country = "USA", !.commissionRate = NumRate(20)]
      [] c = "agents" ->
         [Blank EXCEPT !.name = "Michael Rodriguez",
                           !.email = "michael@elitemodels.com",
                           !.phone = "+1-555-0456", !.city = "New York"]
      [] c = "meetings" ->
         [Blank EXCEPT !.clientName = "Fashion Brand X", !.date = IsoDate(Later),
                           !.time = "11:00", !.location = "Midtown Manhattan"]
      [] c = "onStays" ->
         [Blank EXCEPT !.locationName = "Hotel Milano",
                           !.checkInDate = IsoDate(Later),
                           !.checkOutDate = IsoDate(MuchLater), !.cost = NumRate(450),
                           !.currency = "EUR"]
      [] c = "shootings" ->
         [Blank EXCEPT !.clientName = "Beauty Brand", !.date = IsoDate(Later),
                           !.location = "Studio City, CA", !.rate = NumRate(2000)]

Odd(c) ==
    CASE c = "jobs" ->
         [Blank EXCEPT !.clientName = "Walk-in", !.date = BadDate("not-a-date"),
                           !.rate = StrRate(500, " EUR")]
      [] c = "events" ->
         [Blank EXCEPT !.type = "fitting", !.date = BadDate("tbc")]
      [] c = "aiJobs" ->
         [Blank EXCEPT !.clientName = "Walk-in", !.date = BadDate("not-a-date"),
                           !.rate = StrRate(500, " EUR")]
      [] c = "agencies" -> Blank
      [] c = "agents" -> Blank
      [] c = "meetings" ->
         [Blank EXCEPT !.date = IsoDate(Soon)]
      [] c = "onStays" ->
         [Blank EXCEPT !.checkInDate = BadDate("next week")]
      [] c = "shootings" ->
         [Blank EXCEPT !.date = BadDate("not-a-date")]

Repeat(r, n) == [i \in 1..n |-> r]

\* The values one collection takes: absent, null, no array, empty, with
\* good, odd, blank and null records, and longer than the smallest cap with
\* a null record behind it.
Variants(c) ==
    {UndefColl, NullColl, OtherColl, Arr(<< >>), Arr(<<Good(c)>>),
     Arr(<<Odd(c)>>), Arr(<<Blank>>), Arr(<<NullRec>>),
     Arr(<<Good(c), Odd(c), Blank>>), Arr(<<Good(c), NullRec>>),
     Arr(Repeat(Good(c), AiJobsCap) \o <<NullRec>>)}

\* A record named after its category and its place in the collection.
Numbered(c, i) ==
    LET n == c \o ToString(i)
    IN [Blank EXCEPT !.clientName = n, !.name = n, !.locationName = n]

\* A collection of n records, the unnamed Blank in its third place.
LongCollection(c, n) ==
    Arr([i \in 1..n |-> IF i = 3 THEN Blank ELSE Numbered(c, i)])

\* A stay whose dates are date-only strings, as in the examples.
StayOn(n) ==
    [Blank EXCEPT !.locationName = "Hotel Milano", !.checkInDate = IsoDay(n),
                  !.checkOutDate = IsoDay(n + 1), !.cost = NumRate(450),
                  !.currency = "EUR"]
StayDays == (Later \div DayLength)..(Later \div DayLength + 2)

AllEmptyArrays ==
    [k |-> "obj", userProfile |-> NoProfile, jobs |-> Arr(<< >>),
     events |-> Arr(<< >>), aiJobs |-> Arr(<< >>), agencies |-> Arr(<< >>),
     agents |-> Arr(<< >>), meetings |-> Arr(<< >>), onStays |-> Arr(<< >>),
     shootings |-> Arr(<< >>)]

\* emptyUserData of the examples
EmptyUserData ==
    [AllEmptyArrays EXCEPT
        !.userProfile = Profile("John Doe", "john.doe@email.com", "", "")]

\* sampleUserData of the examples, with dates around the clock
SampleUserData ==
    [k |-> "obj",
     userProfile |-> Profile("Sarah Johnson", "sarah.johnson@email.com",
                             "+1-555-0123", "Sarah J."),
     jobs |-> Arr(<<Good("jobs"), PastJob, SoonJob>>),
     events |-> Arr(<<Good("events"),
                     [Blank EXCEPT !.type = "EventType.casting",
                                   !.date = IsoDate(Soon)]>>),
     aiJobs |-> Arr(<<Good("aiJobs")>>),
     agencies |-> Arr(<<Good("agencies")>>),
     agents |-> Arr(<<Good("agents")>>),
     meetings |-> Arr(<<Good("meetings"), Odd("meetings")>>),
     onStays |-> Arr(<<Good("onStays")>>),
     shootings |-> Arr(<<Good("shootings")>>)]

CategorySet == {Categories[i] : i \in 1..Len(Categories)}

\* The bundles an invocation is given.
Bundles ==
    {UndefinedBundle, NullBundle, EmptyObject, AllEmptyArrays, EmptyUserData,
     SampleUserData,
     [SampleUserData EXCEPT !.userProfile = [NoProfile EXCEPT !.k = "null"]],
     [SampleUserData EXCEPT
        !.jobs = Arr(<<SoonJob, Odd("jobs"), TimestampJob, Blank>>)]}
    \cup UNION {{[AllEmptyArrays EXCEPT ![c] = v] : v \in Variants(c)} :
                    c \in CategorySet}
    \cup UNION {{[SampleUserData EXCEPT ![c] = v] : v \in Variants(c)} :
                    c \in CategorySet}
    \cup {[AllEmptyArrays EXCEPT ![c] = LongCollection(c, n)] :
            c \in CategorySet, n \in 1..MaxRecords}
    \cup {[AllEmptyArrays EXCEPT !.onStays = Arr(<<StayOn(n)>>)] :
            n \in StayDays}

---------------------------------------------------------------------------
(* One invocation of buildUserContext, statement by statement; the wall    *)
(* clock may advance between two statements.                               *)

\* No request is being served.
NoChat == << >>

NoSections == [n \in {SectionNames[i] : i \in 1..Len(SectionNames)} |-> << >>]
NoReads == [n \in ReadNames |-> -1]

Init ==
    /\ bundle = UndefinedBundle
    /\ clock = StartClock
    /\ pc = "idle"
    /\ sections = NoSections
    /\ reads = NoReads
    /\ calItems = << >>
    /\ stats = NoStats
    /\ threw = "none"
    /\ result = NoResult
    /\ zone \in Zones
    /\ chat = NoChat

\* buildUserContext(userData) is called and destructures safeUserData;
\* destructuring null or undefined would throw TypeError into the catch.
Invoke(b) ==
    /\ pc = "idle"
    /\ bundle' = b
    /\ IF SafeUserData(b).k = "obj"
       THEN pc' = "userProfile" /\ UNCHANGED <<threw, result>>
       ELSE pc' = "done" /\ threw' = "userData" /\ result' = CaughtResult
    /\ UNCHANGED <<clock, sections, reads, calItems, stats>>
    /\ UNCHANGED <<zone, chat>>

\* Time passes while the invocation runs.
Tick ==
    /\ pc \notin {"idle", "done"}
    /\ clock < StartClock + MaxTicks
    /\ clock' = clock + 1
    /\ UNCHANGED <<bundle, pc, sections, reads, calItems, stats, threw, result>>
    /\ UNCHANGED <<zone, chat>>

BuildUserProfile ==
    /\ pc = "userProfile"
    /\ Proceed("userProfile", BuildUserProfileSection(Local("userProfile")),
               "jobs")
    /\ UNCHANGED <<bundle, clock, reads, calItems, stats>>
    /\ UNCHANGED <<zone, chat>>

BuildJobs ==
    /\ pc = "jobs"
    /\ reads' = [reads EXCEPT !["jobs"] =
                    IF IsEmptyColl(Local("jobs")) THEN @ ELSE clock]
    /\ Proceed("jobs", BuildJobsSection(Local("jobs"), clock), "events")
    /\ UNCHANGED <<bundle, clock, calItems, stats>>
    /\ UNCHANGED <<zone, chat>>

BuildEvents ==
    /\ pc = "events"
    /\ Proceed("events", BuildEventsSection(Local("events")), "aiJobs")
    /\ UNCHANGED <<bundle, clock, reads, calItems, stats>>
    /\ UNCHANGED <<zone, chat>>

BuildAiJobs ==
    /\ pc = "aiJobs"
    /\ Proceed("aiJobs", BuildAiJobsSection(Local("aiJobs")), "agencies")
    /\ UNCHANGED <<bundle, clock, reads, calItems, stats>>
    /\ UNCHANGED <<zone, chat>>

BuildAgencies ==
    /\ pc = "agencies"
    /\ Proceed("agencies", BuildAgenciesSection(Local("agencies")), "agents")
    /\ UNCHANGED <<bundle, clock, reads, calItems, stats>>
    /\ UNCHANGED <<zone, chat>>

BuildAgents ==
    /\ pc = "agents"
    /\ Proceed("agents", BuildAgentsSection(Local("agents")), "meetings")
    /\ UNCHANGED <<bundle, clock, reads, calItems, stats>>
    /\ UNCHANGED <<zone, chat>>

BuildMeetings ==
    /\ pc = "meetings"
    /\ Proceed("meetings", BuildMeetingsSection(Local("meetings")), "onStays")
    /\ UNCHANGED <<bundle, clock, reads, calItems, stats>>
    /\ UNCHANGED <<zone, chat>>

BuildOnStays ==
    /\ pc = "onStays"
    /\ Proceed("onStays", BuildOnStaysSection(Local("onStays")), "shootings")
    /\ UNCHANGED <<bundle, clock, reads, calItems, stats>>
    /\ UNCHANGED <<zone, chat>>

BuildShootings ==
    /\ pc = "shootings"
    /\ Proceed("shootings", BuildShootingsSection(Local("shootings")),
               "statistics")
    /\ UNCHANGED <<bundle, clock, reads, calItems, stats>>
    /\ UNCHANGED <<zone, chat>>

\* _calculateStatistics catches what its body throws.
Statistics ==
    /\ pc = "statistics"
    /\ reads' = [reads EXCEPT !["statistics"] = clock]
    /\ stats' = StatisticsOf(Local("jobs"), Local("events"), clock)
    /\ Proceed("statistics",
               Returned(CalculateStatistics(Local("jobs"), Local("events"),
                                            clock)),
               "calendar")
    /\ UNCHANGED <<bundle, clock, calItems>>
    /\ UNCHANGED <<zone, chat>>

\* _getCalendarSummary catches what its body throws.
Calendar ==
    /\ pc = "calendar"
    /\ reads' = [reads EXCEPT !["calendar"] = clock]
    /\ calItems' = CalendarItems(Local("jobs"), Local("events"),
                                 Local("meetings"), clock)
    /\ Proceed("calendar",
               Returned(GetCalendarSummary(Local("jobs"), Local("events"),
                                           Local("meetings"), clock)),
               "date")
    /\ bundle' = CallerArrays(bundle)
    /\ UNCHANGED <<clock, stats>>
    /\ UNCHANGED <<zone, chat>>

\* ${this._formatDisplayDate(new Date())}
CurrentDate ==
    /\ pc = "date"
    /\ reads' = [reads EXCEPT !["date"] = clock]
    /\ pc' = "time"
    /\ UNCHANGED <<bundle, clock, sections, calItems, stats, threw, result>>
    /\ UNCHANGED <<zone, chat>>

\* ${this._formatTime(new Date())}, and the context is returned.
Return ==
    /\ pc = "time"
    /\ reads' = [reads EXCEPT !["time"] = clock]
    /\ result' = [kind |-> "returned",
                  lines |-> Context(sections, reads["date"], clock)]
    /\ pc' = "done"
    /\ UNCHANGED <<bundle, clock, sections, calItems, stats, threw>>
    /\ UNCHANGED <<zone, chat>>

Next ==
    \/ \E b \in Bundles : Invoke(b)
    \/ Tick
    \/ BuildUserProfile
    \/ BuildJobs
    \/ BuildEvents
    \/ BuildAiJobs
    \/ BuildAgencies
    \/ BuildAgents
    \/ BuildMeetings
    \/ BuildOnStays
    \/ BuildShootings
    \/ Statistics
    \/ Calendar
    \/ CurrentDate
    \/ Return

Spec == Init /\ [][Next]_vars

---------------------------------------------------------------------------
(* Properties of buildUserContext.                                         *)

Lines(s) == {s[i] : i \in 1..Len(s)}

StartsWith(line, token) == Len(line) >= 1 /\ line[1] = token

\* The first line of s that starts with the token (0: none does).
Position(s, token) ==
    IF \E i \in 1..Len(s) : StartsWith(s[i], token)
    THEN CHOOSE i \in 1..Len(s) :
            /\ StartsWith(s[i], token)
            /\ \A j \in 1..(i - 1) : ~StartsWith(s[j], token)
    ELSE 0

Done == pc = "done"

\* C1: whatever the bundle (null, undefined, an empty object, collections
\* with null, missing, wrongly typed or unparseable content), the
\* invocation ends by returning a string to its caller; nothing is thrown.
C1_AlwaysReturnsString ==
    /\ result.kind # "thrown"
    /\ Done => result.kind = "returned" /\ result.lines # << >>

\* A section builder threw (a null record), and the caller got a string.
C1_Witness ==
    /\ Done
    /\ threw = "agents"
    /\ bundle.agents = Arr(<<Good("agents"), NullRec>>)
    /\ result.kind = "returned"

\* The placeholder the reference implementation gives a failed category.
ErrorPlaceholder(name) ==
    CASE name = "userProfile" -> "USER PROFILE: Error loading profile."
      [] name = "jobs" -> "JOBS: Error loading jobs data."
      [] name = "events" -> "EVENTS: Error loading events data."
      [] name = "aiJobs" -> "AI JOBS: Error loading AI jobs data."
      [] name = "agencies" -> "AGENCIES: Error loading agencies data."
      [] name = "agents" -> "AGENTS: Error loading agents data."
      [] name = "meetings" -> "MEETINGS: Error loading meetings data."
      [] name = "onStays" -> "ON STAYS: Error loading stays data."
      [] name = "shootings" -> "SHOOTINGS: Error loading shootings data."
      [] OTHER -> "Error loading data."

SectionLabels ==
    <<"JOBS DATA:", "EVENTS DATA:", "AI JOBS DATA:", "AGENCIES DATA:",
      "AGENTS DATA:", "MEETINGS DATA:", "ON STAYS DATA:", "SHOOTINGS DATA:",
      "STATISTICS:">>

HasAllLabels(lines) ==
    \A i \in 1..Len(SectionLabels) : <<SectionLabels[i]>> \in Lines(lines)

\* C2: when the construction of one section throws, the returned string
\* holds an error placeholder in the place of that section only, and every
\* other section with its label is still there.
C2_SectionFailureIsLocal ==
    (Done /\ threw # "none") =>
        /\ HasAllLabels(result.lines)
        /\ \E i \in 1..Len(result.lines) :
              StartsWith(result.lines[i], ErrorPlaceholder(threw))
        /\ \A n \in DOMAIN sections :
              (n # threw /\ sections[n] # << >>) =>
                  Lines(sections[n]) \subseteq Lines(result.lines)

\* What the builder returns when there is no data at all.
EmptySkeleton(dateRead, timeRead) ==
    Preamble
    \o << <<"USER PROFILE: Profile not found.">>,
          << >>, <<"JOBS DATA:">>, <<"JOBS: No jobs found.">>,
          << >>, <<"EVENTS DATA:">>, <<"EVENTS: No events found.">>,
          << >>, <<"AI JOBS DATA:">>, <<"AI JOBS: No AI jobs found.">>,
          << >>, <<"AGENCIES DATA:">>, <<"AGENCIES: No agencies found.">>,
          << >>, <<"AGENTS DATA:">>, <<"AGENTS: No agents found.">>,
          << >>, <<"MEETINGS DATA:">>, <<"MEETINGS: No meetings found.">>,
          << >>, <<"ON STAYS DATA:">>, <<"ON STAYS: No stays found.">>,
          << >>, <<"SHOOTINGS DATA:">>, <<"SHOOTINGS: No shootings found.">>,
          << >>, <<"STATISTICS:">>,
          <<"STATISTICS:">>,
          <<"- Total Income: $", "0.00", " USD">>,
          <<"- Total Jobs: ", "0">>,
          <<"- Upcoming Jobs: ", "0">>,
          <<"- Completed Jobs: ", "0">>,
          <<"- Total Events: ", "0">>,
          << >>,
          << >>, <<"UPCOMING CALENDAR (Next 10 Events):">>,
          <<"UPCOMING CALENDAR: No upcoming events scheduled.">>,
          << >>,
          <<"Current Date: ", FormatDisplayDate(DateNow(dateRead))>>,
          <<"Current Time: ", FormatTime(DateNow(timeRead))>> >>
    \o Closing

\* C3: a null bundle gives the non-empty string with every section label
\* and every category rendered as empty, which is also what a bundle of
\* empty arrays gives.
C3_NullBundleIsAllEmpty ==
    (Done /\ bundle \in {NullBundle, AllEmptyArrays}) =>
        /\ result.kind = "returned"
        /\ HasAllLabels(result.lines)
        /\ result.lines = EmptySkeleton(reads["date"], reads["time"])

C3_Witness ==
    /\ Done
    /\ bundle = NullBundle
    /\ threw = "none"
    /\ <<"JOBS: No jobs found.">> \in Lines(result.lines)

NoneFound(c) ==
    CASE c = "jobs" -> "JOBS: No jobs found."
      [] c = "events" -> "EVENTS: No events found."
      [] c = "aiJobs" -> "AI JOBS: No AI jobs found."
      [] c = "agencies" -> "AGENCIES: No agencies found."
      [] c = "agents" -> "AGENTS: No agents found."
      [] c = "meetings" -> "MEETINGS: No meetings found."
      [] c = "onStays" -> "ON STAYS: No stays found."
      [] c = "shootings" -> "SHOOTINGS: No shootings found."

\* C4: for each of the eight categories, the section built from an empty
\* collection is exactly the one 'No ... found.' sentence: no count header,
\* no record block.
C4_EmptyCollectionOneSentence ==
    \A c \in CategorySet :
        (sections[c] # << >> /\ Local(c) = Arr(<< >>)) =>
            sections[c] = << <<NoneFound(c)>> >>

\* Every category but shootings is empty, and all eight sections are built.
C4_Witness ==
    /\ bundle = [AllEmptyArrays EXCEPT !.shootings = Arr(<<Good("shootings")>>)]
    /\ pc = "statistics"
    /\ sections["onStays"] = << <<"ON STAYS: No stays found.">> >>
    /\ Len(sections["shootings"]) > 1

\* The first token of what introduces each part of the context, in order.
PartMarkers ==
    <<"You are an AI assistant for a modeling professional using Model Day. You have access to ONLY their data and can help analyze it and provide insights.",
      "CURRENT USER DATA CONTEXT:", "JOBS DATA:", "EVENTS DATA:",
      "AI JOBS DATA:", "AGENCIES DATA:", "AGENTS DATA:", "MEETINGS DATA:",
      "ON STAYS DATA:", "SHOOTINGS DATA:", "STATISTICS:",
      "UPCOMING CALENDAR (Next 10 Events):", "Current Date: ",
      "Current Time: ",
      "Provide helpful, professional responses based on the actual data. Consider:">>

\* The section that follows each marker (markers 2 to 12).
PartSections ==
    <<"", "userProfile", "jobs", "events", "aiJobs", "agencies", "agents",
      "meetings", "onStays", "shootings", "statistics", "calendar", "", "",
      "">>

\* C5: a context that was assembled holds its parts in the fixed order,
\* each behind its literal label, whatever the data: preamble, profile,
\* JOBS DATA:, EVENTS DATA:, AI JOBS DATA:, AGENCIES DATA:, AGENTS DATA:,
\* MEETINGS DATA:, ON STAYS DATA:, SHOOTINGS DATA:, STATISTICS:, UPCOMING
\* CALENDAR, Current Date, Current Time, closing paragraph.
C5_FixedSectionOrder ==
    (Done /\ threw = "none") =>
        LET out == result.lines
            at(i) == Position(out, PartMarkers[i])
        IN /\ \A i \in 1..Len(PartMarkers) : at(i) > 0
           /\ \A i \in 1..(Len(PartMarkers) - 1) : at(i) < at(i + 1)
           /\ \A i \in 1..Len(PartMarkers) :
                PartSections[i] # "" =>
                    SubSeq(out, at(i) + 1, at(i) + Len(sections[PartSections[i]]))
                        = sections[PartSections[i]]

C5_Witness ==
    /\ Done
    /\ threw = "none"
    /\ bundle = SampleUserData
    /\ Position(result.lines, "EVENTS DATA:")
         < Position(result.lines, "AI JOBS DATA:")

DatedCategories == {"jobs", "events", "aiJobs", "meetings", "shootings"}

\* C10: a record whose date is a present but unparseable string is shown
\* with that raw string as its date, and 'Date TBD' is shown only for a
\* record without a date.
C10_UnparseableDateShownRaw ==
    \A c \in DatedCategories :
        (sections[c] # << >> /\ Local(c).k = "arr" /\ Len(Local(c).items) > 0)
        => LET shown == Local(c).items
           IN /\ \A i \in 1..Len(shown) :
                    (shown[i].date.k = "str" /\ ~shown[i].date.ok) =>
                        \E l \in Lines(sections[c]) :
                            /\ StartsWith(l, "- ")
                            /\ l[2] = shown[i].date.raw
              /\ (\E l \in Lines(sections[c]) :
                        StartsWith(l, "- ") /\ l[2] = "Date TBD")
                 => \E i \in 1..Len(shown) : shown[i].date.k = "absent"

---------------------------------------------------------------------------
(* _getCalendarSummary called on its own.                                  *)

\* The date fields of the exhaustive calendar inputs.
CalDates ==
    {NoDate, BadDate("not-a-date"), IsoDate(Past), IsoDate(StartClock),
     IsoDate(Soon), IsoDate(Later)}

\* A record is named after its category and its place in the collection.
Named(c, i, d) ==
    [Blank EXCEPT !.clientName = c \o ToString(i), !.date = d]

NamedSeqs(c, n) ==
    {[i \in 1..n |-> Named(c, i, ds[i])] : ds \in [1..n -> CalDates]}

\* Every jobs / events / meetings of at most MaxCalRecords records in all.
SmallCalendars ==
    UNION {UNION {UNION {
        {[AllEmptyArrays EXCEPT !.jobs = Arr(j), !.events = Arr(e),
                                !.meetings = Arr(m)] :
            j \in NamedSeqs("job", nj), e \in NamedSeqs("event", ne),
            m \in NamedSeqs("meeting", nm)} :
        nm \in 0..(MaxCalRecords - nj - ne)} :
        ne \in 0..(MaxCalRecords - nj)} :
        nj \in 0..MaxCalRecords}

\* Long collections: their dates repeat with different periods, so that
\* equal dates meet within and across categories; every fourth job is one
\* the calendar must leave out.
LongJob(i) ==
    IF i % 4 = 0 THEN Named("job", i, IsoDate(Past))
    ELSE [Named("job", i, IsoDate(Later + ((2 * i) % 3)))
            EXCEPT !.time = "09:00", !.location = "New York, NY"]
LongEvent(i) ==
    IF i = 2 THEN NullRec
    ELSE [Named("event", i, IsoDate(Later + (i % 2)))
            EXCEPT !.type = "casting"]
LongMeeting(i) == Named("meeting", i, IsoDate(Later + ((i + 1) % 3)))

LongCalendars ==
    {[AllEmptyArrays EXCEPT
        !.jobs = Arr([i \in 1..nj |-> LongJob(i)]),
        !.events = Arr([i \in 1..ne |-> LongEvent(i)]),
        !.meetings = Arr([i \in 1..nm |-> LongMeeting(i)])] :
        nj \in 0..MaxPrefix, ne \in 0..MaxPrefix, nm \in 0..MaxPrefix}

CalendarInputs == SmallCalendars \cup LongCalendars

InitCalendar ==
    /\ bundle \in CalendarInputs
    /\ clock = StartClock
    /\ pc = "call"
    /\ sections = NoSections
    /\ reads = NoReads
    /\ calItems = << >>
    /\ stats = NoStats
    /\ threw = "none"
    /\ result = NoResult
    /\ zone \in Zones
    /\ chat = NoChat

\* _getCalendarSummary(jobs, events, meetings) runs and returns.
CalendarCall ==
    /\ pc = "call"
    /\ reads' = [reads EXCEPT !["calendar"] = clock]
    /\ calItems' = CalendarItems(Local("jobs"), Local("events"),
                                 Local("meetings"), clock)
    /\ sections' = [sections EXCEPT !["calendar"] =
                        GetCalendarSummary(Local("jobs"), Local("events"),
                                           Local("meetings"), clock)]
    /\ pc' = "done"
    /\ bundle' = CallerArrays(bundle)
    /\ UNCHANGED <<clock, stats, threw, result>>
    /\ UNCHANGED <<zone, chat>>

NextCalendar == Tick \/ CalendarCall

SpecCalendar == InitCalendar /\ [][NextCalendar]_vars

\* The jobs, events and meetings of the bundle, in that order.
Merged == Items(Local("jobs")) \o Items(Local("events"))
              \o Items(Local("meetings"))

\* A record whose date parses and is strictly later than the instant read.
Eligible(r, now) ==
    ~r.isNull /\ r.date.k \in {"str", "num"} /\ r.date.ok /\ r.date.t > now

\* The place in Merged of the record an item was made from.
Origin(item) == CHOOSE i \in 1..Len(Merged) :
                    ~Merged[i].isNull /\ Merged[i].clientName = item.title

\* C6: every item of the calendar comes from a job, event or meeting whose
\* date parses and is strictly later than the now the merger read; a
\* record whose date is absent, unparseable, or at or before that now is
\* not among the items.
C6_OnlyStrictlyFutureItems ==
    Done =>
        /\ \A k \in 1..Len(calItems) :
              \E i \in 1..Len(Merged) :
                  /\ Eligible(Merged[i], reads["calendar"])
                  /\ Merged[i].clientName = calItems[k].title
                  /\ Merged[i].date.t = calItems[k].date.t
        /\ \A i \in 1..Len(Merged) :
              ~Eligible(Merged[i], reads["calendar"]) =>
                  \A k \in 1..Len(calItems) :
                      Merged[i].isNull
                      \/ calItems[k].title # Merged[i].clientName

\* The clock passed a record's date before the merger read it; the record
\* is left out and a later one is listed.
C6_Witness ==
    /\ Done
    /\ reads["calendar"] = Soon
    /\ Len(calItems) = 1
    /\ \E i \in 1..Len(Merged) : Merged[i].date = IsoDate(Soon)
    /\ \E i \in 1..Len(Merged) : Merged[i].date = BadDate("not-a-date")

\* C7: the items are in ascending date order, and items of the same date
\* are in input order: jobs before events before meetings, and within a
\* category as they were given.
C7_AscendingAndStable ==
    Done =>
        \A a, b \in 1..Len(calItems) :
            a < b =>
                /\ calItems[a].date.t <= calItems[b].date.t
                /\ calItems[a].date.t = calItems[b].date.t
                     => Origin(calItems[a]) < Origin(calItems[b])

\* A job, an event and a meeting of one date, given after a later job.
C7_Witness ==
    /\ Done
    /\ Len(calItems) = 3
    /\ Len(Items(Local("jobs"))) = 1
    /\ calItems[1].type = "job" /\ calItems[2].type = "event"
    /\ calItems[3].type = "meeting"
    /\ calItems[1].date.t = calItems[3].date.t

UpcomingPlaces == {i \in 1..Len(Merged) : Eligible(Merged[i], reads["calendar"])}

ItemLines(section) == {i \in 1..Len(section) : StartsWith(section[i], "- ")}

\* C8: the calendar lists at most 10 items, the 10 earliest upcoming ones
\* (all when there are fewer); the number in its header is the number of
\* items listed; with none, it is the one 'No upcoming events' line.
C8_TenEarliest ==
    Done =>
        LET sec == sections["calendar"]
        IN /\ Len(calItems) = Min(Cardinality(UpcomingPlaces), 10)
           /\ \A i \in UpcomingPlaces :
                 \/ \E k \in 1..Len(calItems) : Origin(calItems[k]) = i
                 \/ \A k \in 1..Len(calItems) :
                        calItems[k].date.t <= Merged[i].date.t
           /\ IF Len(calItems) = 0
              THEN sec = << <<"UPCOMING CALENDAR: No upcoming events scheduled.">> >>
              ELSE /\ sec[1] = <<"UPCOMING CALENDAR (Next ",
                                 ToString(Cardinality(ItemLines(sec))),
                                 " Events):">>
                   /\ Cardinality(ItemLines(sec)) = Len(calItems)

\* More than ten records are upcoming and ten are listed.
C8_Witness ==
    /\ Done
    /\ Cardinality(UpcomingPlaces) > 10
    /\ Len(calItems) = 10
    /\ Cardinality(ItemLines(sections["calendar"])) = 10

---------------------------------------------------------------------------
(* _calculateStatistics called on its own.                                 *)

\* The rate fields of the statistics inputs: absent, numbers, a numeric
\* string, a number followed by a currency, a text.
StatRates ==
    {NoRate, NumRate(2500), NumRate(5000), NumRate(3000), StrRate(1200, ""),
     StrRate(500, " EUR"), TextRate("negotiable")}

\* The date fields of the statistics inputs: absent, unparseable, past, the
\* instant the clock starts at, one the clock may pass, a later one, a number.
StatDates ==
    {NoDate, BadDate("not-a-date"), IsoDate(Past), IsoDate(StartClock),
     IsoDate(Soon), NumDate(Past)}

\* Jobs that differ by their rate, jobs that differ by their date, and the
\* job whose date and rate are both malformed.
StatJobs ==
    {[Blank EXCEPT !.rate = r, !.date = IsoDate(Later)] : r \in StatRates}
    \cup {[Blank EXCEPT !.date = d] : d \in StatDates}
    \cup {Odd("jobs")}

\* Long inputs: the days of the jobs and of the events run through the
\* months out of order and meet in some; one job has an unparseable date.
MonthJob(i) ==
    IF i = 3 THEN [Blank EXCEPT !.date = BadDate("not-a-date")]
    ELSE [Blank EXCEPT !.date = IsoDay((5 * i) % 17), !.rate = NumRate(100)]
MonthEvent(i) == [Blank EXCEPT !.date = IsoDay((7 * i) % 17)]

StatisticsInputs ==
    UNION {{[AllEmptyArrays EXCEPT !.jobs = Arr(j), !.events = Arr(e)] :
                j \in [1..n -> StatJobs],
                e \in {<< >>, <<Good("events"), Odd("events")>>}} :
            n \in 0..MaxStatJobs}
    \cup {[AllEmptyArrays EXCEPT
                !.jobs = Arr([i \in 1..nj |-> MonthJob(i)]),
                !.events = Arr([i \in 1..ne |-> MonthEvent(i)])] :
            nj \in 0..MaxMonthRecords, ne \in 0..MaxMonthRecords}

InitStatistics ==
    /\ bundle \in StatisticsInputs
    /\ clock = StartClock
    /\ pc = "callStatistics"
    /\ sections = NoSections
    /\ reads = NoReads
    /\ calItems = << >>
    /\ stats = NoStats
    /\ threw = "none"
    /\ result = NoResult
    /\ zone \in Zones
    /\ chat = NoChat

\* _calculateStatistics(jobs, events) runs and returns.
StatisticsCall ==
    /\ pc = "callStatistics"
    /\ reads' = [reads EXCEPT !["statistics"] = clock]
    /\ stats' = StatisticsOf(Local("jobs"), Local("events"), clock)
    /\ sections' = [sections EXCEPT !["statistics"] =
                        CalculateStatistics(Local("jobs"), Local("events"),
                                            clock)]
    /\ pc' = "done"
    /\ UNCHANGED <<bundle, clock, calItems, threw, result>>
    /\ UNCHANGED <<zone, chat>>

NextStatistics == Tick \/ StatisticsCall

SpecStatistics == InitStatistics /\ [][NextStatistics]_vars

\* What a rate field adds to a sum of the numeric rates: its number when it
\* is a number or a numeric string, 0 when it is absent or not numeric.
NumericRate(r) ==
    IF r.k = "num" \/ (r.k = "str" /\ r.hasNum /\ r.suf = "") THEN r.n ELSE 0

RECURSIVE SumOfNumericRates(_)
SumOfNumericRates(jobs) ==
    IF jobs = << >> THEN 0
    ELSE NumericRate(Head(jobs).rate) + SumOfNumericRates(Tail(jobs))

\* C9: the total income is the sum of the numeric rates of all the jobs (an
\* absent or non-numeric rate counts 0, a job with an unparseable date
\* counts its rate), shown with two decimals: [2500, 5000, 3000] gives
\* "10500.00".
C9_TotalIncomeIsSumOfNumericRates ==
    Done =>
        /\ stats.totalIncome = SumOfNumericRates(Items(Local("jobs")))
        /\ <<"- Total Income: $",
             ToString(SumOfNumericRates(Items(Local("jobs")))) \o ".00",
             " USD">> \in Lines(sections["statistics"])

\* A job that carries a date: a non-empty string or a number other than 0.
CarriesDate(job) ==
    job.date.k = "str" \/ (job.date.k = "num" /\ job.date.t # 0)

\* The jobs whose date parses and is strictly after / not after an instant,
\* and the jobs that carry a date that does not parse.
ParsedAfter(jobs, now) ==
    {i \in 1..Len(jobs) :
        CarriesDate(jobs[i]) /\ jobs[i].date.ok /\ jobs[i].date.t > now}
ParsedNotAfter(jobs, now) ==
    {i \in 1..Len(jobs) :
        CarriesDate(jobs[i]) /\ jobs[i].date.ok /\ jobs[i].date.t <= now}
Unparseable(jobs) ==
    {i \in 1..Len(jobs) : CarriesDate(jobs[i]) /\ ~jobs[i].date.ok}

\* C11: a job whose date is a malformed string counts neither as upcoming
\* nor as completed, in the SUMMARY of the jobs section and in STATISTICS:
\* both show the counts of the jobs whose date parses.
C11_MalformedDateJobUncounted ==
    LET jobs == Items(Local("jobs"))
    IN /\ (sections["jobs"] # << >> /\ jobs # << >>) =>
             /\ <<"- Upcoming Jobs: ",
                  ToString(Cardinality(ParsedAfter(jobs, reads["jobs"])))>>
                    \in Lines(sections["jobs"])
             /\ <<"- Completed Jobs: ",
                  ToString(Cardinality(ParsedNotAfter(jobs, reads["jobs"])))>>
                    \in Lines(sections["jobs"])
       /\ stats.ok =>
             /\ stats.upcomingJobs =
                    Cardinality(ParsedAfter(jobs, reads["statistics"]))
             /\ stats.completedJobs =
                    Cardinality(ParsedNotAfter(jobs, reads["statistics"]))

AllEvents == Items(Local("jobs")) \o Items(Local("events"))
ParsedPlaces == {i \in 1..Len(AllEvents) :
                    CarriesDate(AllEvents[i]) /\ AllEvents[i].date.ok}

\* The YYYY-MM text of the n-th month (month 0 is January 2025).
YearMonth(n) ==
    ToString(2025 + (n \div 12)) \o "-"
    \o (IF (n % 12) + 1 < 10 THEN "0" ELSE "") \o ToString((n % 12) + 1)

\* The months the inputs of the model can fall in.
MonthNumbers == (-2)..(2 * (StartClock + MaxTicks + MaxMonthRecords) + 20)

\* The month a parseable date falls in, in the time zone of the server.
MonthOf(r) == ((r.date.t + zone) \div DayLength) \div 2

RECURSIVE SumCounts(_)
SumCounts(buckets) ==
    IF buckets = {} THEN 0
    ELSE LET b == CHOOSE x \in buckets : TRUE
         IN b.count + SumCounts(buckets \ {b})

\* C13: a record whose date does not parse adds to no bucket of the month
\* histogram: every key is the YYYY-MM of a record whose date parses, and
\* the counts add up to the number of jobs and events whose date parses.
C13_HistogramOfParseableDates ==
    (Done /\ stats.ok) =>
        /\ \A b \in stats.eventsByMonth :
              \E i \in ParsedPlaces : b.key = YearMonth(MonthOf(AllEvents[i]))
        /\ SumCounts(stats.eventsByMonth) = Cardinality(ParsedPlaces)

\* The month lines of the STATISTICS section, in the order they are printed.
MonthLinesOf(section) == SelectSeq(section, LAMBDA l : StartsWith(l, "  "))

\* The place of a key in the ascending order of the keys: the number of its
\* month; "NaN-NaN" sorts after every YYYY-MM.
KeyRank(key) ==
    IF \E n \in MonthNumbers : YearMonth(n) = key
    THEN CHOOSE n \in MonthNumbers : YearMonth(n) = key
    ELSE 2 * (StartClock + MaxTicks + MaxMonthRecords) + 21

LineOf(section, token) ==
    IF Position(section, token) = 0 THEN << >>
    ELSE section[Position(section, token)]

\* C15: one invocation reads the wall clock once: the instants the jobs
\* SUMMARY, STATISTICS, the calendar and the Current Date and Current Time
\* lines go by are one instant, so the SUMMARY and STATISTICS agree on the
\* number of upcoming jobs.
C15_ClockReadOnce ==
    (Done /\ threw = "none") =>
        /\ \A a, b \in ReadNames :
              (reads[a] # -1 /\ reads[b] # -1) => reads[a] = reads[b]
        /\ (stats.ok /\ LineOf(sections["jobs"], "- Upcoming Jobs: ") # << >>) =>
              LineOf(sections["jobs"], "- Upcoming Jobs: ")
                = LineOf(sections["statistics"], "- Upcoming Jobs: ")

\* The sections that were built from a non-empty collection.
BuiltCategories ==
    {c \in CategorySet :
        sections[c] # << >> /\ Local(c).k = "arr" /\ Local(c).items # << >>}

\* The number of blocks a collection of n records is to get.
BlocksFor(c, n) ==
    CASE c = "aiJobs" -> IF n < 5 THEN n ELSE 5
      [] c \in {"meetings", "onStays", "shootings"} -> IF n < 10 THEN n ELSE 10
      [] c = "events" -> IF n < 20 THEN n ELSE 20
      [] OTHER -> n

\* The line of a block that names its record, the place of the name in that
\* line, and the name a record is shown by.
NameMarker(c) == IF c = "events" THEN "  Client: " ELSE "- "
NamePlace(c) ==
    IF c \in {"jobs", "aiJobs", "meetings", "shootings"} THEN 4 ELSE 2
ShownName(c, r) ==
    CASE c = "agencies" -> Or(r.name, "Unknown Agency")
      [] c = "agents" -> Or(r.name, "Unknown Agent")
      [] c = "onStays" -> Or(r.locationName, "Unknown Location")
      [] OTHER -> Or(r.clientName, "Unknown Client")

\* C16: a section has min(n, cap) blocks, one for each of the first
\* min(n, cap) records in input order; the cap is 5 for AI jobs, 10 for
\* meetings, stays and shootings, 20 for events, none for jobs, agencies
\* and agents.
C16_BlocksAreTheFirstRecords ==
    \A c \in BuiltCategories :
        LET items == Local(c).items
            starts == SelectSeq(sections[c], LAMBDA l : StartsWith(l, "- "))
            named == SelectSeq(sections[c],
                               LAMBDA l : StartsWith(l, NameMarker(c)))
        IN /\ Len(starts) = BlocksFor(c, Len(items))
           /\ Len(named) = BlocksFor(c, Len(items))
           /\ \A k \in 1..Len(named) :
                 named[k][NamePlace(c)] = ShownName(c, items[k])

\* The events were given 21 records and their section has 20 blocks.
C16_Witness ==
    /\ Done
    /\ \E c \in BuiltCategories :
          /\ c = "events"
          /\ Len(Local(c).items) = 21
          /\ Len(SelectSeq(sections[c], LAMBDA l : StartsWith(l, "- "))) = 20

\* The header a category is to have for a total of n records.
CountedHeader(c, n) ==
    << CASE c = "jobs" -> "JOBS ("
         [] c = "events" -> "EVENTS ("
         [] c = "aiJobs" -> "AI JOBS ("
         [] c = "agencies" -> "AGENCIES ("
         [] c = "agents" -> "AGENTS ("
         [] c = "meetings" -> "MEETINGS ("
         [] c = "onStays" -> "ON STAYS ("
         [] c = "shootings" -> "SHOOTINGS (",
       ToString(n), " total):" >>

\* C17 as stated: the header of every non-empty section states the number
\* of records of the collection.
C17_EveryHeaderStatesTotal ==
    \A c \in BuiltCategories :
        sections[c][1] = CountedHeader(c, Len(Local(c).items))

\* C17: the header of a non-empty section states the number of records of
\* the collection, also beyond the cap, for every category but AI jobs,
\* whose header is the line "AI JOBS:" and states no number.
C17_HeaderStatesTotalButAiJobs ==
    \A c \in BuiltCategories :
        IF c = "aiJobs" THEN sections[c][1] = <<"AI JOBS:">>
        ELSE sections[c][1] = CountedHeader(c, Len(Local(c).items))

\* A section of 10 blocks whose header says 11.
C17_Witness ==
    /\ Done
    /\ "meetings" \in BuiltCategories
    /\ sections["meetings"][1] = <<"MEETINGS (", "11", " total):">>
    /\ Len(SelectSeq(sections["meetings"], LAMBDA l : StartsWith(l, "- "))) = 10

\* C18: a stay whose check-in date is a date-only string is shown with the
\* weekday, month, day and year of that calendar day, whatever the time
\* zone of the server.
C18_CheckInShowsItsDay ==
    ("onStays" \in BuiltCategories) =>
        \A n \in StayDays :
            Local("onStays").items[1].checkInDate = IsoDay(n) =>
                <<"  Check-in: ", "D" \o ToString(n)>>
                    \in Lines(sections["onStays"])

\* C19: an invocation leaves its input as it was given: once the bundle is
\* passed in, no step changes the bundle, a collection of it (its length,
\* the order of its records) or a record.
C19_InputUnchanged == [][pc # "idle" => bundle' = bundle]_vars

\* The calendar listed the sample's records by date, and the jobs of the
\* bundle are still in the order they were given, a later job first.
C19_Witness ==
    /\ Done
    /\ threw = "none"
    /\ bundle = SampleUserData
    /\ Len(calItems) > 2
    /\ bundle.jobs.items[1].date.t > bundle.jobs.items[2].date.t

---------------------------------------------------------------------------
(* POST /api/chat (src/server.js): the handler runs up to its await of the *)
(* upstream completion, and again from there when the completion settles;  *)
(* handlers of several requests interleave at the await.                   *)

\* The number of requests in flight at once.
MaxRequests == 2

Requests == 1..MaxRequests

\* A context field: null or absent, a string, a value that is no string.
\* blank: trim().length === 0; profile: includes('USER PROFILE:').
NoContext == [k |-> "null", text |-> "", blank |-> TRUE, profile |-> FALSE]
ContextString(text, blank, profile) ==
    [k |-> "str", text |-> text, blank |-> blank, profile |-> profile]
ContextObject == [k |-> "other", text |-> "", blank |-> FALSE, profile |-> FALSE]

\* if (context): a string other than "", an object.
ContextTruthy(c) == c.k = "other" \/ (c.k = "str" /\ c.text # "")

\* An entry of the conversation.
ChatMessage(role, content) ==
    [role |-> role, content |-> content, message |-> "",
     userData |-> UndefinedBundle, context |-> NoContext]

\* A string as the content of a message: one line of one token.
Text(str) == << <<str>> >>

\* const { message, conversation = [], userData = null, context = null }
Destructured(body) ==
    [message |-> body.message,
     conversation |-> DefaultArray(body.conversation),
     userData |-> IF body.userData.k = "undef" THEN NullBundle
                  ELSE body.userData,
     context |-> body.context]

\* Object.keys(userData).length
KeyCount(userData) ==
    Cardinality({c \in CategorySet : userData[c].k # "undef"})
    + (IF userData.userProfile.k # "undef" THEN 1 ELSE 0)

\* userData && Object.keys(userData).length > 0
HasKeys(userData) == userData.k = "obj" /\ KeyCount(userData) > 0

\* conversation.find(msg => msg.userData || msg.context): the place of the
\* first such message, 0 when there is none.
\*   a conversation that is never searched
ContextMessageNone(items) == 0
ContextMessage(items) ==
    LET carriers == {i \in 1..Len(items) :
                        items[i].userData.k = "obj"
                        \/ ContextTruthy(items[i].context)}
    IN IF carriers = {} THEN 0
       ELSE CHOOSE i \in carriers : \A j \in carriers : i <= j

\* The limitations prompt of the fallback.
FallbackContext ==
    << <<"You are ModelDay AI, a helpful assistant for the ModelDay platform.">>,
       << >>,
       <<"IMPORTANT CONTEXT LIMITATIONS:">>,
       <<"- You currently have NO ACCESS to the user's personal modeling data (jobs, events, bookings, etc.)">>,
       <<"- You cannot provide specific insights about their career, earnings, or schedule">>,
       <<"- You cannot analyze their booking patterns, agent relationships, or financial data">>,
       <<"- You should NOT make up or assume any personal information about the user">>,
       << >>,
       <<"What you CAN help with:">>,
       <<"1. General modeling industry advice and guidance">>,
       <<"2. Portfolio creation tips and best practices">>,
       <<"3. Career development strategies in fashion and modeling">>,
       <<"4. Industry insights and trends">>,
       <<"5. Professional networking advice">>,
       <<"6. Casting preparation and audition tips">>,
       <<"7. General business advice for models">>,
       << >>,
       <<"If the user asks about their specific data, politely explain that you need access to their ModelDay account data to provide personalized insights. Suggest they ensure their data is properly synced or contact support if needed.">>,
       << >>,
       <<"Be professional, encouraging, and provide practical general advice while being transparent about your current limitations.">> >>

\* systemContext: the pre-built context, the context built from userData,
\* what the conversation embeds, or the fallback.
\*   userData looked at before the context of the request
SystemContextUserDataFirst(l, now) ==
    IF HasKeys(l.userData) THEN BuildUserContext(l.userData, now)
    ELSE IF l.context.k = "str" /\ ~l.context.blank
    THEN Text(l.context.text)
    ELSE FallbackContext
SystemContext(l, now) ==
    IF l.context.k = "str" /\ ~l.context.blank THEN Text(l.context.text)
    ELSE IF HasKeys(l.userData) THEN BuildUserContext(l.userData, now)
    ELSE LET items == l.conversation.items
             at == IF l.conversation.k = "arr" THEN ContextMessage(items)
                   ELSE 0
         IN IF at = 0 THEN FallbackContext
            ELSE IF items[at].userData.k = "obj"
            THEN BuildUserContext(items[at].userData, now)
            ELSE Text(items[at].context.text)

\* The messages passed to openai.chat.completions.create.
\*   the message of the request placed before the conversation
ChatMessagesRequestFirst(l, now) ==
    << [role |-> "system", content |-> SystemContext(l, now)],
       [role |-> "user", content |-> Text(l.message)] >>
    \o [i \in 1..Len(l.conversation.items) |->
            [role |-> Or(l.conversation.items[i].role, "user"),
             content |-> Text(Or(l.conversation.items[i].content,
                                 l.conversation.items[i].message))]]
ChatMessages(l, now) ==
    << [role |-> "system", content |-> SystemContext(l, now)] >>
    \o [i \in 1..Len(l.conversation.items) |->
            [role |-> Or(l.conversation.items[i].role, "user"),
             content |-> Text(Or(l.conversation.items[i].content,
                                 l.conversation.items[i].message))]]
    \o << [role |-> "user", content |-> Text(l.message)] >>

\* Whether the part of the handler before the await throws: the spread of
\* conversation.map on null.
PreparationThrows(l) == l.conversation.k # "arr"

\* What the upstream call of a request settles with: a completion whose
\* first choice answers the last message it was sent, a completion with
\* no content, or an error with a code.
Answer(messages) == "re: " \o messages[Len(messages)].content[1][1]
Completion(content) == [k |-> "completion", content |-> content, code |-> ""]
UpstreamError(code) == [k |-> "error", content |-> "", code |-> code]
ErrorCodes ==
    {"insufficient_quota", "invalid_api_key", "rate_limit_exceeded",
     "server_error"}

\* hasUserData: [thrown, value]; context.includes throws TypeError on a
\* value that is no string.
HasUserData(l) ==
    IF HasKeys(l.userData) THEN [thrown |-> FALSE, value |-> TRUE]
    ELSE IF l.context.k = "other" THEN [thrown |-> TRUE, value |-> FALSE]
    ELSE [thrown |-> FALSE,
          value |->
            \/ ContextTruthy(l.context) /\ l.context.profile
            \/ \E i \in 1..Len(l.conversation.items) :
                  LET msg == l.conversation.items[i]
                  IN \/ msg.userData.k = "obj"
                     \/ ContextTruthy(msg.context) /\ msg.context.profile]

\* contextSource
\*   'conversation' for any conversation, with no look at its entries
ContextSourceByPresence(l) ==
    IF ContextTruthy(l.context) THEN "pre-built"
    ELSE IF l.userData.k = "obj" THEN "userData"
    ELSE IF l.conversation.k = "arr" THEN "conversation"
    ELSE "fallback"
ContextSource(l) ==
    IF ContextTruthy(l.context) THEN "pre-built"
    ELSE IF l.userData.k = "obj" THEN "userData"
    ELSE IF \E i \in 1..Len(l.conversation.items) :
                \/ l.conversation.items[i].userData.k = "obj"
                \/ ContextTruthy(l.conversation.items[i].context)
    THEN "conversation"
    ELSE "fallback"

NoResponse ==
    [status |-> 0, code |-> "", response |-> "", hasUserData |-> FALSE,
     contextLimited |-> FALSE, contextSource |-> "", timestamp |-> 0]

\* res.status(status).json({ error, code })
ErrorResponse(status, code) ==
    [NoResponse EXCEPT !.status = status, !.code = code]

\* The catch of the handler: the response an error is answered with.
\*   a catch that answers every error alike
CaughtAlike(code) == ErrorResponse(500, "INTERNAL_ERROR")
Caught(code) ==
    CASE code = "insufficient_quota" -> ErrorResponse(429, "QUOTA_EXCEEDED")
      [] code = "invalid_api_key" -> ErrorResponse(401, "INVALID_API_KEY")
      [] code = "rate_limit_exceeded" ->
            ErrorResponse(429, "RATE_LIMIT_EXCEEDED")
      [] OTHER -> ErrorResponse(500, "INTERNAL_ERROR")

\* The handler from its await on: the response it sends when the upstream
\* call settled with the outcome and the clock shows now.
Respond(l, outcome, now) ==
    IF outcome.k = "error" THEN Caught(outcome.code)
    ELSE IF outcome.content = "" \/ HasUserData(l).thrown THEN Caught("")
    ELSE [status |-> 200, code |-> "", response |-> outcome.content,
          hasUserData |-> HasUserData(l).value,
          contextLimited |-> ~HasUserData(l).value,
          contextSource |-> ContextSource(l), timestamp |-> now]

\* Where the locals of the handler serving a request are kept: message,
\* conversation, userData and context are const bindings of the call, so
\* every request has its own.
\*   bindings at module level, one set for all the requests
ModuleScope(r) == 1
HandlerScope(r) == r

NoLocals == Destructured([message |-> "", conversation |-> UndefColl,
                          userData |-> UndefinedBundle, context |-> NoContext])

\* What the upstream call of a request settled with, before it does.
NoOutcome == [k |-> "none", content |-> "", code |-> ""]

\* A request: where its handler is, the body it was posted with, the
\* clock when /api/chat received it, the upstream calls made for it and
\* the messages of the last, what the call settled with, the responses
\* /api/chat sent for it and the last of them; for a request posted to
\* /api/chat-with-context, the context that endpoint built.
NoRequest ==
    [pc |-> "idle", body |-> NoLocals, at |-> 0, calls |-> 0, call |-> << >>,
     outcome |-> NoOutcome, sent |-> 0, response |-> NoResponse,
     withContext |-> FALSE, built |-> << >>]

\* The request bodies: one that names each source of the system prompt,
\* and the ones that are refused or that make the handler throw.
ChatBodies ==
    LET plain == [message |-> "Hello", conversation |-> UndefColl,
                  userData |-> UndefinedBundle, context |-> NoContext]
        turn == ChatMessage("assistant", "Hi there")
    IN {plain,
        [plain EXCEPT !.message = ""],
        [plain EXCEPT !.message = "What are my earnings?",
                      !.userData = SampleUserData],
        [plain EXCEPT !.userData = EmptyObject, !.conversation = Arr(<<turn>>)],
        [plain EXCEPT !.message = "Analyze my data",
                      !.conversation = Arr(<< >>),
                      !.userData = EmptyUserData],
        [plain EXCEPT !.userData = EmptyUserData,
                      !.context = ContextString("  ", TRUE, FALSE)],
        [plain EXCEPT !.message = "And next week?",
                      !.context = ContextString("USER PROFILE: Sarah", FALSE, TRUE),
                      !.userData = EmptyUserData],
        [plain EXCEPT !.context = ContextObject],
        [plain EXCEPT !.conversation = NullColl],
        [plain EXCEPT !.message = "Any castings?",
                      !.conversation =
                        Arr(<<turn,
                              [ChatMessage("", "") EXCEPT
                                  !.message = "Earlier question",
                                  !.userData = EmptyUserData],
                              [turn EXCEPT !.context =
                                  ContextString("notes", FALSE, FALSE)]>>)],
        [plain EXCEPT !.conversation =
                        Arr(<<[turn EXCEPT !.context =
                                  ContextString("USER PROFILE: Sarah", FALSE, TRUE)]>>)]}

\* The bodies posted to /api/chat-with-context: with the sample as
\* userData, with an object without keys, without userData, without a
\* message.
ContextBodies ==
    LET plain == [message |-> "Hello", conversation |-> UndefColl,
                  userData |-> UndefinedBundle, context |-> NoContext]
    IN {[plain EXCEPT !.userData = SampleUserData],
        [plain EXCEPT !.userData = EmptyObject],
        plain,
        [plain EXCEPT !.message = "", !.userData = SampleUserData]}

InitChat ==
    /\ bundle = UndefinedBundle
    /\ clock = StartClock
    /\ pc = "serving"
    /\ sections = NoSections
    /\ reads = NoReads
    /\ calItems = << >>
    /\ stats = NoStats
    /\ threw = "none"
    /\ result = NoResult
    /\ zone \in Zones
    /\ \E key \in BOOLEAN :
          chat = [apiKey |-> key,
                  req |-> [r \in Requests |-> NoRequest],
                  locals |-> [r \in Requests |-> NoLocals]]

\* The checks at the head of the handler: the response that refuses the
\* request, NoResponse when it passes.
\*   the API key looked at before the message
ValidationKeyFirst(l, apiKey) ==
    IF ~apiKey THEN ErrorResponse(500, "MISSING_API_KEY")
    ELSE IF l.message = "" THEN ErrorResponse(400, "MISSING_MESSAGE")
    ELSE NoResponse
Validation(l, apiKey) ==
    IF l.message = "" THEN ErrorResponse(400, "MISSING_MESSAGE")
    ELSE IF ~apiKey THEN ErrorResponse(500, "MISSING_API_KEY")
    ELSE NoResponse

\* The handler of /api/chat runs on a body up to its await: it answers 400
\* or 500 at once, or it passes the messages to the upstream client.
Handled(r, body) ==
    LET l == Destructured(body)
        answered(response) ==
            [chat.req[r] EXCEPT !.pc = "done", !.body = body, !.at = clock,
                                !.sent = @ + 1, !.response = response]
    IN [chat EXCEPT
            !.locals[HandlerScope(r)] = l,
            !.req[r] =
                IF Validation(l, chat.apiKey) # NoResponse
                THEN answered(Validation(l, chat.apiKey))
                ELSE IF PreparationThrows(l) THEN answered(Caught(""))
                ELSE [@ EXCEPT !.pc = "awaiting", !.body = body,
                               !.at = clock, !.calls = @ + 1,
                               !.call = ChatMessages(l, clock)]]

\* A request is posted to /api/chat.
ChatRequest(r, body) ==
    /\ chat.req[r].pc = "idle"
    /\ chat' = Handled(r, body)
    /\ UNCHANGED <<bundle, clock, pc, sections, reads, calItems, stats,
                   threw, result, zone>>

\* The upstream call of a request settles and its handler runs from the
\* await to its response.
ChatResume(r, outcome) ==
    /\ chat.req[r].pc = "awaiting"
    /\ chat' =
        [chat EXCEPT
            !.req[r] =
                [@ EXCEPT !.pc = "done",
                          !.outcome = outcome,
                          !.sent = @ + 1,
                          !.response =
                              Respond(chat.locals[HandlerScope(r)], outcome,
                                      clock)]]
    /\ UNCHANGED <<bundle, clock, pc, sections, reads, calItems, stats,
                   threw, result, zone>>

\* res.redirect(307, '/api/chat')
Redirect == ErrorResponse(307, "")

\* A request is posted to /api/chat-with-context: it is refused, or the
\* context is built and the response is the redirect. The assignment to
\* req.body changes the request object of this handler, which ends with
\* the response.
ChatWithContext(r, body) ==
    /\ chat.req[r].pc = "idle"
    /\ chat' =
        [chat EXCEPT
            !.req[r] =
                IF body.message = ""
                THEN [@ EXCEPT !.pc = "refused", !.body = body,
                               !.withContext = TRUE,
                               !.response =
                                   ErrorResponse(400, "MISSING_MESSAGE")]
                ELSE IF body.userData.k # "obj"
                THEN [@ EXCEPT !.pc = "refused", !.body = body,
                               !.withContext = TRUE,
                               !.response =
                                   ErrorResponse(400, "MISSING_USER_DATA")]
                ELSE [@ EXCEPT !.pc = "redirected", !.body = body,
                               !.withContext = TRUE,
                               !.built =
                                   BuildUserContext(body.userData, clock),
                               !.response = Redirect]]
    /\ UNCHANGED <<bundle, clock, pc, sections, reads, calItems, stats,
                   threw, result, zone>>

\* The client follows the 307: it posts the body of its request again, to
\* /api/chat.
ChatFollow(r) ==
    /\ chat.req[r].pc = "redirected"
    /\ chat' = Handled(r, chat.req[r].body)
    /\ UNCHANGED <<bundle, clock, pc, sections, reads, calItems, stats,
                   threw, result, zone>>

NextChat ==
    \/ Tick
    \/ \E r \in Requests, body \in ChatBodies : ChatRequest(r, body)
    \/ \E r \in {q \in Requests : chat.req[q].pc = "awaiting"} :
          \E outcome \in {Completion(Answer(chat.req[r].call)), Completion("")}
                          \cup {UpstreamError(c) : c \in ErrorCodes} :
              ChatResume(r, outcome)
    \/ \E r \in Requests, body \in ContextBodies : ChatWithContext(r, body)
    \/ \E r \in Requests : ChatFollow(r)

SpecChat == InitChat /\ [][NextChat]_vars

\* C20: whatever the interleaving of the requests in flight, the messages
\* sent upstream for a request are made of its own message, conversation,
\* context and userData, and so are the answer and the flags of its
\* response: what is served to one request does not depend on another.
C20_RequestsAreIsolated ==
    \A r \in Requests :
        LET own == Destructured(chat.req[r].body)
            req == chat.req[r]
        IN /\ req.calls = 1 => req.call = ChatMessages(own, req.at)
           /\ (req.pc = "done" /\ req.response.status = 200) =>
                 /\ req.response.response = "re: " \o own.message
                 /\ req.response.hasUserData = HasUserData(own).value
                 /\ req.response.contextLimited = ~HasUserData(own).value
                 /\ req.response.contextSource = ContextSource(own)

\* Two requests were in flight together, one with userData and one without,
\* the second arrived and was answered while the first was awaiting, and
\* both got their own answer.
C20_Witness ==
    /\ chat.req[1].pc = "done" /\ chat.req[2].pc = "done"
    /\ chat.req[1].response.status = 200
    /\ chat.req[2].response.status = 200
    /\ chat.req[1].response.hasUserData
    /\ ~chat.req[2].response.hasUserData
    /\ chat.req[1].at < chat.req[2].at
    /\ chat.req[2].response.timestamp < chat.req[1].response.timestamp


\* The first entry of a conversation that carries userData or a context,
\* 0 when no entry does.
FirstCarrier(items) ==
    IF \A i \in 1..Len(items) :
            items[i].userData.k # "obj" /\ ~ContextTruthy(items[i].context)
    THEN 0
    ELSE CHOOSE i \in 1..Len(items) :
            /\ items[i].userData.k = "obj" \/ ContextTruthy(items[i].context)
            /\ \A j \in 1..(i - 1) :
                  items[j].userData.k # "obj"
                  /\ ~ContextTruthy(items[j].context)

\* C21: the system prompt sent upstream is the context of the request when
\* it is a non-blank string; otherwise the context built from userData
\* when userData has a key; otherwise what the first entry of the
\* conversation that carries userData or a context gives, its userData,
\* built, before its context; otherwise the limitations prompt.
C21_PromptByPriority ==
    \A r \in Requests :
        LET req == chat.req[r]
            own == Destructured(req.body)
            prompt == req.call[1].content
            items == own.conversation.items
            preBuilt == own.context.k = "str" /\ ~own.context.blank
            at == FirstCarrier(items)
        IN req.calls = 1 =>
            /\ preBuilt => prompt = Text(own.context.text)
            /\ (~preBuilt /\ HasKeys(own.userData)) =>
                  prompt = BuildUserContext(own.userData, req.at)
            /\ (~preBuilt /\ ~HasKeys(own.userData) /\ at > 0) =>
                  prompt = IF items[at].userData.k = "obj"
                           THEN BuildUserContext(items[at].userData, req.at)
                           ELSE Text(items[at].context.text)
            /\ (~preBuilt /\ ~HasKeys(own.userData) /\ at = 0) =>
                  prompt = FallbackContext

\* One request carried a context and userData and was sent the context;
\* another carried neither and its conversation gave the prompt, by the
\* userData of its second entry, before the context of the third.
C21_Witness ==
    \E r, q \in Requests :
        /\ chat.req[r].calls = 1
        /\ chat.req[r].body.context.k = "str"
        /\ HasKeys(chat.req[r].body.userData)
        /\ chat.req[r].call[1].content = Text(chat.req[r].body.context.text)
        /\ chat.req[q].calls = 1
        /\ chat.req[q].body.userData.k = "undef"
        /\ Len(chat.req[q].body.conversation.items) = 3
        /\ chat.req[q].call[1].content =
              BuildUserContext(EmptyUserData, chat.req[q].at)


\* The source that gave the system prompt of a request.
SourceUsed(own) ==
    IF own.context.k = "str" /\ ~own.context.blank THEN "pre-built"
    ELSE IF HasKeys(own.userData) THEN "userData"
    ELSE IF FirstCarrier(own.conversation.items) > 0 THEN "conversation"
    ELSE "fallback"

\* C22: the contextSource of a success response names the source that
\* gave the system prompt of the request: 'pre-built' exactly when the
\* context of the request was used, 'userData' exactly when the prompt was
\* built from its userData, 'conversation' exactly when an entry of the
\* conversation gave it, 'fallback' exactly when it is the limitations
\* prompt.
C22_ContextSourceNamesTheSource ==
    \A r \in Requests :
        (chat.req[r].pc = "done" /\ chat.req[r].response.status = 200) =>
            chat.req[r].response.contextSource =
                SourceUsed(Destructured(chat.req[r].body))


\* C23: a request whose userData has a profile and only empty collections
\* is answered with hasUserData false, contextLimited true and the
\* contextSource 'userData'.
C23_EmptyUserDataIsLimited ==
    \A r \in Requests :
        LET req == chat.req[r]
        IN (/\ req.pc = "done"
            /\ req.response.status = 200
            /\ req.body.userData = EmptyUserData
            /\ req.body.context = NoContext) =>
                /\ ~req.response.hasUserData
                /\ req.response.contextLimited
                /\ req.response.contextSource = "userData"


\* A request body with no context, no userData and no entry of the
\* conversation that carries userData or a context.
CarriesNothing(body) ==
    /\ body.context.k = "null"
    /\ body.userData.k \in {"undef", "null"}
    /\ FirstCarrier(body.conversation.items) = 0

\* C24: a request with no context, no userData and no conversation entry
\* carrying userData or a context is sent upstream with the limitations
\* prompt as its system prompt, and its success response has hasUserData
\* false, contextLimited true and the contextSource 'fallback'.
C24_NothingCarriedIsFallback ==
    \A r \in Requests :
        LET req == chat.req[r]
        IN CarriesNothing(req.body) =>
            /\ req.calls = 1 => req.call[1].content = FallbackContext
            /\ (req.pc = "done" /\ req.response.status = 200) =>
                  /\ ~req.response.hasUserData
                  /\ req.response.contextLimited
                  /\ req.response.contextSource = "fallback"

\* A request with a message and nothing else was sent upstream and
\* answered.
C24_Witness ==
    \E r \in Requests :
        /\ CarriesNothing(chat.req[r].body)
        /\ chat.req[r].calls = 1
        /\ chat.req[r].pc = "done"
        /\ chat.req[r].response.status = 200
        /\ chat.req[r].response.contextSource = "fallback"
        /\ chat.req[r].call[1].content = FallbackContext


---------------------------------------------------------------------------
(* _calculateStatistics of the Dart reference                              *)
(* (src/reference/context_service.dart).                                   *)

\* job.date.isNotEmpty and DateTime.parse(job.date) does not throw.
DartParses(d) == d.k = "str" /\ d.ok

\* DateTime.parse of a string without a time zone: the fields it writes
\* are read as local time, so the day is the one written and the instant
\* is the local midnight of it.
DartDateTime(d) == [day |-> d.t \div DayLength, t |-> d.t - zone]

\* '${date.year}-${date.month.toString().padLeft(2, '0')}'
DartMonthKey(d) ==
    LET idx == DartDateTime(d).day \div 2
        m == (idx % 12) + 1
    IN [nan |-> FALSE, idx |-> idx,
        text |-> ToString(2025 + (idx \div 12)) \o "-"
                 \o (IF m < 10 THEN "0" ELSE "") \o ToString(m)]

\* The numbers the reference computes: every rate is added, a date that
\* does not parse is skipped, and the months listed are
\* sortedMonths.take(6).
DartStatisticsOf(jobs, events, now) ==
    LET all == jobs \o events
        parsed == {i \in 1..Len(jobs) : DartParses(jobs[i].date)}
        keys == {DartMonthKey(all[i].date) :
                    i \in {j \in 1..Len(all) : DartParses(all[j].date)}}
    IN [totalIncome |-> SumInts([i \in 1..Len(jobs) |-> jobs[i].rate.n]),
        upcomingJobs |->
            Cardinality({i \in parsed : DartDateTime(jobs[i].date).t > now}),
        completedJobs |->
            Cardinality({i \in parsed : DartDateTime(jobs[i].date).t <= now}),
        months |-> Slice(SortKeys(keys), 0, MonthsCap)]

\* The jobs and events both implementations can be given: a job has a
\* number as its rate (0 when it has none) and a string as its date, an
\* event has a date or none.
ReferenceInput(jobs, events) ==
    /\ jobs.k = "arr" /\ events.k = "arr"
    /\ \A i \in 1..Len(jobs.items) :
          /\ ~jobs.items[i].isNull
          /\ jobs.items[i].rate.k \in {"num", "absent"}
          /\ jobs.items[i].date.k \in {"str", "absent"}
    /\ \A i \in 1..Len(events.items) :
          /\ ~events.items[i].isNull
          /\ \/ events.items[i].date.k = "absent"
             \/ events.items[i].date.k = "str" /\ events.items[i].date.ok

\* C25: for the same jobs and events the statistics are those of the
\* reference: the same total income, the same upcoming and completed
\* counts and the same months under 'Activity by Month', also when the
\* dates fall in more than 6 months.
C25_SameStatisticsAsReference ==
    (pc = "done" /\ stats.ok /\ ReferenceInput(bundle.jobs, bundle.events)) =>
        LET ref == DartStatisticsOf(bundle.jobs.items, bundle.events.items,
                                    reads["statistics"])
        IN /\ stats.totalIncome = ref.totalIncome
           /\ stats.upcomingJobs = ref.upcomingJobs
           /\ stats.completedJobs = ref.completedJobs
           /\ {stats.months[i].key : i \in 1..Len(stats.months)}
                = {ref.months[i].text : i \in 1..Len(ref.months)}


\* The status and the code that answer an upstream failure.
AnswerTo(outcome) ==
    CASE outcome.k = "error" /\ outcome.code = "insufficient_quota" ->
            <<429, "QUOTA_EXCEEDED">>
      [] outcome.k = "error" /\ outcome.code = "invalid_api_key" ->
            <<401, "INVALID_API_KEY">>
      [] outcome.k = "error" /\ outcome.code = "rate_limit_exceeded" ->
            <<429, "RATE_LIMIT_EXCEEDED">>
      [] OTHER -> <<500, "INTERNAL_ERROR">>

\* C26: an upstream failure is not retried: a request makes at most one
\* upstream call (one openai.chat.completions.create), its handler ends with one response and no more, and
\* after a failure of the call (an error, or a completion without
\* content) the status and the code of the response are the ones fixed by
\* the error code.
C26_OneCallOneResponse ==
    \A r \in Requests :
        LET req == chat.req[r]
        IN /\ req.calls <= 1
           /\ req.sent <= 1
           /\ req.pc = "done" => req.sent = 1
           /\ (/\ req.pc = "done"
               /\ \/ req.outcome.k = "error"
                  \/ req.outcome.k = "completion" /\ req.outcome.content = "")
              => /\ req.calls = 1
                 /\ <<req.response.status, req.response.code>>
                        = AnswerTo(req.outcome)

\* The upstream call of one request failed with rate_limit_exceeded and
\* the one of another gave a completion without content; either was
\* called once and answered once.
C26_Witness ==
    \E r, q \in Requests :
        /\ chat.req[r].pc = "done"
        /\ chat.req[r].outcome = UpstreamError("rate_limit_exceeded")
        /\ chat.req[r].response.status = 429
        /\ chat.req[r].calls = 1 /\ chat.req[r].sent = 1
        /\ chat.req[q].pc = "done"
        /\ chat.req[q].outcome = Completion("")
        /\ chat.req[q].response.code = "INTERNAL_ERROR"
        /\ chat.req[q].calls = 1 /\ chat.req[q].sent = 1


C28_ValidationComesFirst ==
    \A r \in Requests :
        LET req == chat.req[r]
        IN /\ (req.pc = "done" /\ req.body.message = "") =>
                /\ req.response.status = 400
                /\ req.response.code = "MISSING_MESSAGE"
                /\ req.calls = 0 /\ req.call = << >>
           /\ (req.pc = "done" /\ req.body.message # "" /\ ~chat.apiKey) =>
                /\ req.response.status = 500
                /\ req.response.code = "MISSING_API_KEY"
                /\ req.calls = 0 /\ req.call = << >>

\* With no API key, a request without a message was answered 400 and one
\* with a message and userData was answered 500.
C28_Witness ==
    \E r, q \in Requests :
        /\ ~chat.apiKey
        /\ chat.req[r].pc = "done"
        /\ chat.req[r].body.message = ""
        /\ chat.req[r].response.code = "MISSING_MESSAGE"
        /\ chat.req[q].pc = "done"
        /\ chat.req[q].body.userData = SampleUserData
        /\ chat.req[q].response.code = "MISSING_API_KEY"
        /\ chat.req[q].calls = 0


\* C29: the messages sent upstream are one system message with the chosen
\* system prompt, then one message for every entry of the conversation,
\* in the order of the conversation, with the role of the entry or 'user'
\* when it has none, then the message of the request as a user message;
\* there are as many as the entries of the conversation and 2 more.
C29_MessageList ==
    \A r \in Requests :
        LET req == chat.req[r]
            own == Destructured(req.body)
            items == own.conversation.items
        IN req.calls = 1 =>
            /\ Len(req.call) = Len(items) + 2
            /\ req.call[1] =
                  [role |-> "system", content |-> SystemContext(own, req.at)]
            /\ \A i \in 1..Len(items) :
                  /\ req.call[i + 1].role =
                        (IF items[i].role = "" THEN "user" ELSE items[i].role)
                  /\ req.call[i + 1].content =
                        Text(IF items[i].content = "" THEN items[i].message
                             ELSE items[i].content)
            /\ req.call[Len(items) + 2] =
                  [role |-> "user", content |-> Text(own.message)]

\* A conversation of three entries was sent as five messages; its second
\* entry, which has no role and no content, went as a user message with
\* the text of its message field.
C29_Witness ==
    \E r \in Requests :
        /\ chat.req[r].calls = 1
        /\ Len(chat.req[r].body.conversation.items) = 3
        /\ Len(chat.req[r].call) = 5
        /\ chat.req[r].call[2].role = "assistant"
        /\ chat.req[r].call[3] =
              [role |-> "user", content |-> Text("Earlier question")]
        /\ chat.req[r].call[5] =
              [role |-> "user", content |-> Text("Any castings?")]


\* C30: a request posted to /api/chat-with-context with a message and
\* userData leads to a chat whose system prompt is the context that this
\* endpoint built from the userData: after the redirect, /api/chat uses
\* the context placed in the forwarded body.
C30_ChatUsesTheBuiltContext ==
    \A r \in Requests :
        LET req == chat.req[r]
        IN (req.withContext /\ req.calls = 1) =>
              req.call[1].content = req.built

=============================================================================
